---- MODULE Spec2Model ----
(***************************************************************************)
(* The request pipeline of the server: request_handler (the deadline       *)
(* wrapper) and request_handler_wrapped (Host normalisation, configuration *)
(* resolution, URL sanitation, asterisk form, CONNECT, WebSocket, the      *)
(* handler chain walk, post-processing, access and error log records).     *)
(*                                                                         *)
(* One state of the model is one request in flight.  An action is the code *)
(* that runs between two suspension points (awaits) of the pipeline.       *)
(***************************************************************************)
EXTENDS Integers, Sequences, FiniteSets, TLC

(***************************************************************************)
(* Bounds of the model.                                                    *)
(***************************************************************************)
NumHandlers == 2          \* longest handler chain handed to request_handler
TickMs == 150000          \* how far one step of the clock advances
MaxClock == 300000        \* the clock stops advancing here
MaxRequests == 2          \* requests served on one connection

(***************************************************************************)
(* Program constants.                                                      *)
(***************************************************************************)
DEFAULT_TIMEOUT_MS == 300000
SERVER_SOFTWARE == "SERVER_SOFTWARE"

(***************************************************************************)
(* YAML values of the global configuration.                                *)
(***************************************************************************)
YamlBadValue == [kind |-> "BadValue", v |-> 0]
YamlNull == [kind |-> "Null", v |-> 0]
YamlInteger(n) == [kind |-> "Integer", v |-> n]
YamlString == [kind |-> "String", v |-> 0]
YamlHash(entries) == [kind |-> "Hash", entries |-> entries]

is_null(yaml) == yaml.kind = "Null"
as_i64_is_some(yaml) == yaml.kind = "Integer"
as_str_is_some(yaml) == yaml.kind = "String"

\* ServerConfigRoot::get : a key that is not configured reads as BadValue.
ConfigGet(root, key) == IF key \in DOMAIN root THEN root[key] ELSE YamlBadValue

CustomHeaderEntries == {[name |-> "x-test", value |-> "ignored"]}
ContentLengthHeaderEntries == {[name |-> "content-length", value |-> "5"]}
TimeoutInputs == {YamlNull, YamlInteger(150000)}

MkConfig(log, errlog, custom, timeout_present, timeout_yaml) ==
  [k \in (IF log THEN {"logFilePath"} ELSE {})
         \cup (IF errlog THEN {"errorLogFilePath"} ELSE {})
         \cup (IF custom THEN {"customHeaders"} ELSE {})
         \cup (IF timeout_present THEN {"timeout"} ELSE {}) |->
     CASE k = "logFilePath" -> YamlString
       [] k = "errorLogFilePath" -> YamlString
       [] k = "customHeaders" -> YamlHash(CustomHeaderEntries)
       [] k = "timeout" -> timeout_yaml]

Configs ==
  {MkConfig(l, e, c, FALSE, YamlNull) : l \in BOOLEAN, e \in BOOLEAN, c \in BOOLEAN}
  \cup {MkConfig(l, e, c, TRUE, t) :
          l \in BOOLEAN, e \in BOOLEAN, c \in BOOLEAN, t \in TimeoutInputs}

(***************************************************************************)
(* Header values and header maps.                                          *)
(***************************************************************************)
HeaderNames ==
  {"server", "x-test", "content-length", "allow", "connection", "upgrade", "sec-websocket-accept"}
NoHeader == "<absent>"
EmptyHeaders == [n \in HeaderNames |-> NoHeader]
HandlerHeaders ==
  [n \in HeaderNames |->
     CASE n = "server" -> "upstream" [] n = "x-test" -> "1" [] OTHER -> NoHeader]
ExtraHeaders == [n \in HeaderNames |-> IF n = "x-test" THEN "1" ELSE NoHeader]

NoHeaderMap == [some |-> FALSE, map |-> EmptyHeaders]
SomeHeaderMap(m) == [some |-> TRUE, map |-> m]

\* body().size_hint().exact(): the length of a body held in memory (an empty
\* body here), nothing for a streamed body.
NoSizeHint == [some |-> FALSE, len |-> 0]
ExactSizeHint(len) == [some |-> TRUE, len |-> len]

NoResponse ==
  [some |-> FALSE, status |-> 0, headers |-> EmptyHeaders, size_hint |-> ExactSizeHint(0)]
Response(status, headers) ==
  [some |-> TRUE, status |-> status, headers |-> headers, size_hint |-> ExactSizeHint(0)]
\* The response hyper_tungstenite::upgrade returns for an upgrade request:
\* 101 with the handshake headers and the text "switching to websocket
\* protocol" as a body held in memory, without a Content-Length header.
WEBSOCKET_HANDSHAKE_LEN == 31
HandshakeHeaderNames == {"connection", "upgrade", "sec-websocket-accept"}
original_response ==
  [some |-> TRUE, status |-> 101,
   headers |-> [n \in HeaderNames |->
                  CASE n = "connection" -> "upgrade"
                    [] n = "upgrade" -> "websocket"
                    [] n = "sec-websocket-accept" -> "<accept key>"
                    [] OTHER -> NoHeader],
   size_hint |-> ExactSizeHint(WEBSOCKET_HANDSHAKE_LEN)]

\* A response whose body is a stream of unknown length.
StreamResponse(status, headers) ==
  [some |-> TRUE, status |-> status, headers |-> headers, size_hint |-> NoSizeHint]

\* Host header bytes: "a.", "A." and "A" followed by the byte 0x80.
NoHost == [some |-> FALSE, bytes |-> <<>>]
SomeHost(b) == [some |-> TRUE, bytes |-> b]
HostInputs == {NoHost, SomeHost(<<97, 46>>), SomeHost(<<65, 46>>), SomeHost(<<65, 128>>)}

\* HeaderValue::to_str succeeds on visible ASCII and tab only.
to_str_ok(bytes) ==
  \A i \in 1..Len(bytes) : (bytes[i] >= 32 /\ bytes[i] < 127) \/ bytes[i] = 9

\* A Host step that hands the text on as received.
to_lowercase_as_received(bytes) == bytes

\* str::to_lowercase on text that to_str accepted (ASCII).
to_lowercase(bytes) ==
  [i \in 1..Len(bytes) |->
     IF bytes[i] >= 65 /\ bytes[i] <= 90 THEN bytes[i] + 32 ELSE bytes[i]]

\* HeaderValue::from_str accepts bytes >= 32 other than DEL, and tab.
from_str_ok(bytes) ==
  \A i \in 1..Len(bytes) : (bytes[i] >= 32 /\ bytes[i] # 127) \/ bytes[i] = 9


(***************************************************************************)
(* request_handler: the deadline handed to tokio::time::timeout.           *)
(***************************************************************************)
NoDeadline == [some |-> FALSE, ms |-> 0]

\* The width of i64 and u64, scaled down: integers of the configuration are
\* in -2^(IntBits-1) .. 2^(IntBits-1)-1, unsigned values in 0 .. 2^IntBits-1.
IntBits == 20
U64_MODULUS == 2^IntBits
I64_MAX == 2^(IntBits - 1) - 1

\* A conversion to unsigned that turns a negative value into 0.
as_u64_saturating(n) == IF n < 0 THEN 0 ELSE n

\* `as u64` of an i64: the value modulo 2^64.
as_u64(n) == n % U64_MODULUS

\* timeout_yaml.as_i64().unwrap_or(300000) as u64
timeout_millis(timeout_yaml) ==
  as_u64(IF as_i64_is_some(timeout_yaml) THEN timeout_yaml.v ELSE DEFAULT_TIMEOUT_MS)

\* A deadline only where `timeout` holds an integer.
request_deadline_integer_only(root) ==
  LET timeout_yaml == ConfigGet(root, "timeout") IN
  IF as_i64_is_some(timeout_yaml) THEN [some |-> TRUE, ms |-> timeout_yaml.v]
  ELSE NoDeadline

\* A null `timeout` runs the pipeline with no deadline at all.
request_deadline(root) ==
  LET timeout_yaml == ConfigGet(root, "timeout") IN
  IF is_null(timeout_yaml) THEN NoDeadline
  ELSE [some |-> TRUE, ms |-> timeout_millis(timeout_yaml)]

\* The timer of tokio::time::timeout has fired.
deadline_elapsed(now, d) == d.some /\ now >= d.ms

(***************************************************************************)
(* Response header steps of request_handler_wrapped.                       *)
(***************************************************************************)
\* A customHeaders loop without the contains_key test.
apply_custom_headers_overwriting(config, headers) ==
  LET custom == ConfigGet(config, "customHeaders") IN
  IF custom.kind # "Hash" THEN headers
  ELSE [n \in HeaderNames |->
          IF \E e \in custom.entries : e.name = n
          THEN (CHOOSE e \in custom.entries : e.name = n).value
          ELSE headers[n]]

\* The customHeaders loop: a configured header is inserted only where the
\* response has no header of that name.
apply_custom_headers(config, headers) ==
  LET custom == ConfigGet(config, "customHeaders") IN
  IF custom.kind # "Hash" THEN headers
  ELSE [n \in HeaderNames |->
          IF headers[n] = NoHeader /\ (\E e \in custom.entries : e.name = n)
          THEN (CHOOSE e \in custom.entries : e.name = n).value
          ELSE headers[n]]

\* response_parts.headers.insert(header::SERVER, server_string)
set_server_header(headers) == [headers EXCEPT !["server"] = SERVER_SOFTWARE]

\* The length of the page generate_default_error_page returns.
DEFAULT_ERROR_PAGE_LEN == 42

\* Response::builder() with the default error page as a Full body and no
\* Content-Length header.
error_page_response(status_code) ==
  [Response(status_code, EmptyHeaders) EXCEPT
     !.size_hint = ExactSizeHint(DEFAULT_ERROR_PAGE_LEN)]

\* generate_error_response: the status, the extra headers given by the caller
\* other than Content-Length, and the Content-Length of the page.
generate_error_response(status_code, headers) ==
  [some |-> TRUE,
   status |-> status_code,
   headers |-> [n \in HeaderNames |->
                  IF n = "content-length" THEN "42"
                  ELSE IF headers.some THEN headers.map[n] ELSE NoHeader],
   size_hint |-> ExactSizeHint(DEFAULT_ERROR_PAGE_LEN)]

\* A return that leaves customHeaders out.
finalize_server_only(config, resp, how) ==
  CASE how = "none" -> resp
    [] how = "server" -> [resp EXCEPT !.headers = set_server_header(@)]
    [] how = "custom" -> [resp EXCEPT !.headers = set_server_header(@)]

\* What is still to be done to the headers before the response is returned.
finalize(config, resp, how) ==
  CASE how = "none" -> resp
    [] how = "server" -> [resp EXCEPT !.headers = set_server_header(@)]
    [] how = "custom" ->
         [resp EXCEPT !.headers = set_server_header(apply_custom_headers(config, @))]

\* The headers of a response that come from a handler.
header_names_of(headers) == {n \in HeaderNames : headers[n] # NoHeader}

(***************************************************************************)
(* Log records sent to the log channel.                                    *)
(***************************************************************************)
\* Option<String> of the authenticated user, and socket addresses.
NoUser == "-"
CONNECTION_REMOTE == "peer"
NoAddress == "<none>"

\* header_value.parse::<u64>() on the Content-Length values of the model.
parse_u64(value) ==
  CASE value = "5" -> [ok |-> TRUE, n |-> 5]
    [] value = "42" -> [ok |-> TRUE, n |-> 42]
    [] OTHER -> [ok |-> FALSE, n |-> 0]

\* The content_length argument of log_combined: the Content-Length header when
\* it parses, else the exact size hint of the body; -1 stands for None.
logged_content_length(resp) ==
  LET header_value == resp.headers["content-length"]
      hint == IF resp.size_hint.some THEN resp.size_hint.len ELSE -1
  IN
  IF header_value # NoHeader
  THEN IF parse_u64(header_value).ok THEN parse_u64(header_value).n ELSE hint
  ELSE hint

\* log_combined: LogMessage::new(<combined log line>, false)
log_combined(client_ip, auth_user, status_code, content_length) ==
  [is_error |-> FALSE, msg |-> "access", status |-> status_code,
   client_ip |-> client_ip, user |-> auth_user, content_length |-> content_length]
\* LogMessage::new(<error text>, true)
error_message(text) ==
  [is_error |-> TRUE, msg |-> text, status |-> 0,
   client_ip |-> NoAddress, user |-> NoUser, content_length |-> -1]

log_enabled(root) == as_str_is_some(ConfigGet(root, "logFilePath"))
\* An error log that is enabled whatever the configuration says.
error_log_enabled_always(root) == TRUE

error_log_enabled(root) == as_str_is_some(ConfigGet(root, "errorLogFilePath"))

\* An access record sent on both sides of the return.
access_log_records_twice(enabled, client_ip, auth_user, resp) ==
  LET record == log_combined(client_ip, auth_user, resp.status, logged_content_length(resp))
  IN IF enabled THEN <<record, record>> ELSE <<>>

\* if log_enabled { log_combined(...).await }
access_log_records(enabled, client_ip, auth_user, resp) ==
  IF enabled
  THEN <<log_combined(client_ip, auth_user, resp.status, logged_content_length(resp))>>
  ELSE <<>>

(***************************************************************************)
(* Requests and what the collaborators outside the pipeline answer.        *)
(***************************************************************************)
Methods == {"GET", "OPTIONS", "CONNECT"}
Versions == {"HTTP/1.1", "HTTP/2.0"}
Paths == {"/x", "*"}
Requests ==
  [method : Methods, version : Versions, uri_host : BOOLEAN, path : Paths,
   host : HostInputs, upgrade : BOOLEAN]

\* What a handler advertises: does_connect_proxy_requests and
\* does_websocket_requests.
HandlerKinds ==
  {[connect |-> FALSE, websocket |-> FALSE],
   [connect |-> TRUE, websocket |-> FALSE],
   [connect |-> FALSE, websocket |-> TRUE]}
HandlerChains == UNION {[1..n -> HandlerKinds] : n \in 0..NumHandlers}

\* The chains of the slices that are not about the dispatch: handlers that
\* advertise nothing, a handler that does CONNECT, and a handler that does
\* WebSocket, first in the chain or second.
PlainHandler == [connect |-> FALSE, websocket |-> FALSE]
ConnectHandler == [connect |-> TRUE, websocket |-> FALSE]
WebSocketHandler == [connect |-> FALSE, websocket |-> TRUE]
UsualChains ==
  {[i \in 1..n |-> PlainHandler] : n \in 0..NumHandlers}
    \cup {<<ConnectHandler>>, <<WebSocketHandler>>, <<PlainHandler, WebSocketHandler>>}

\* A server without modules.
NoModules == <<>>

\* modules_leaked.iter().map(|module| module.get_handlers(Handle::current())):
\* one handler for each module, in the order of the modules.
get_handlers(mods) == [i \in 1..Len(mods) |-> mods[i]]

\* A search that takes the last handler of the chain that does CONNECT.
select_connect_handler_last(chain) ==
  LET capable == {i \in 1..Len(chain) : chain[i].connect} IN
  IF capable = {} THEN 0 ELSE CHOOSE i \in capable : \A j \in capable : j <= i

\* for mut handlers in handlers_vec { if handlers.does_connect_proxy_requests()
\* { connect_proxy_handlers = Some(handlers); break; } }: the place in the
\* chain of the handler taken, 0 when there is none.
RECURSIVE first_connect_handler(_, _)
first_connect_handler(chain, i) ==
  IF i > Len(chain) THEN 0
  ELSE IF chain[i].connect THEN i
  ELSE first_connect_handler(chain, i + 1)
select_connect_handler(chain) == first_connect_handler(chain, 1)

\* sanitize_url and the rebuilding of the URI: the path is unchanged, changed
\* and rebuilt, changed but the URI cannot be rebuilt, or rejected.
SanitizeResults == {"same", "changed", "unbuildable", "error"}

\* What sanitize_url can do to a path: the rules of the sanitizer (decoding of
\* percent escapes, repeated slashes, dot segments, control octets) find
\* nothing to change or to reject in the asterisk form.
sanitize_outcomes(url_pathname) ==
  IF url_pathname = "*" THEN {"same"} ELSE SanitizeResults

\* The request-target as it was received: not the asterisk form, the asterisk
\* form with OPTIONS, or the asterisk form with another method.
asterisk_form(req) ==
  IF req.path # "*" THEN "no"
  ELSE IF req.method = "OPTIONS" THEN "options"
  ELSE "other"

ALLOW_METHODS == "GET, POST, HEAD, OPTIONS"
AllowHeaders == [EmptyHeaders EXCEPT !["allow"] = ALLOW_METHODS]

is_proxy_request(req) ==
  IF req.version = "HTTP/2.0" THEN req.method = "CONNECT" /\ req.uri_host
  ELSE req.uri_host

is_connect_proxy_request(req) == req.method = "CONNECT"

\* The Host header step: <<accepted, header after the step>>.
host_normalization(host) ==
  IF ~host.some THEN [ok |-> TRUE, host |-> host]
  ELSE IF ~to_str_ok(host.bytes) THEN [ok |-> FALSE, host |-> host]
  ELSE LET host_header_lower_case == to_lowercase(host.bytes) IN
       IF host_header_lower_case # host.bytes
       THEN IF from_str_ok(host_header_lower_case)
            THEN [ok |-> TRUE, host |-> SomeHost(host_header_lower_case)]
            ELSE [ok |-> FALSE, host |-> host]
       ELSE [ok |-> TRUE, host |-> host]

\* The Host argument of combine_config.
combine_config_host(req, host) ==
  IF is_proxy_request(req) \/ is_connect_proxy_request(req) THEN NoHost
  ELSE IF host.some /\ to_str_ok(host.bytes) THEN host ELSE NoHost


\* combine_config: the effective configuration, when a scope matches.
combine_config(root, found) == [some |-> found, config |-> root]

(***************************************************************************)
(* What handlers return.                                                   *)
(***************************************************************************)
HandlerResponses == {Response(200, EmptyHeaders), Response(200, HandlerHeaders)}

\* ResponseData::into_parts of an Ok result.
ResponseData ==
  [ok : {TRUE}, request : BOOLEAN, response : HandlerResponses \cup {NoResponse},
   status : {0, 403}, headers : {NoHeaderMap, SomeHeaderMap(ExtraHeaders)},
   parallel_fn : BOOLEAN, auth_data : {NoUser}, new_remote_address : {NoAddress}]

HandlerError ==
  [ok |-> FALSE, request |-> FALSE, response |-> NoResponse, status |-> 0,
   headers |-> NoHeaderMap, parallel_fn |-> FALSE, auth_data |-> NoUser,
   new_remote_address |-> NoAddress]

ForwardResults == ResponseData \cup {HandlerError}

\* A response-modifying handler returns the response unchanged, sets a header,
\* removes headers, or fails.
PostResults == {"keep", "set", "clear", "err"}

modified_response(b, resp) ==
  CASE b = "keep" -> resp
    [] b = "set" -> [resp EXCEPT !.headers["x-test"] = "1"]
    [] b = "clear" -> [resp EXCEPT !.headers = EmptyHeaders]
    [] b = "resize" -> [resp EXCEPT !.headers["content-length"] = "5"]

\* A match that looks at the status before the response.
primary_status_first(o) ==
  IF o.status # 0 THEN "status"
  ELSE IF o.response.some THEN "response"
  ELSE IF o.request THEN "request"
  ELSE "none"

\* match response { Some => ..., None => match status { Some => ...,
\*   None => match request_option { Some => continue, None => break } } }
primary(o) ==
  IF o.response.some THEN "response"
  ELSE IF o.status # 0 THEN "status"
  ELSE IF o.request THEN "request"
  ELSE "none"

\* A queue in place of the stack: the handler that ran first is taken first.
stack_pop_front(stack) == [top |-> Head(stack), rest |-> Tail(stack)]

\* executed_handlers.pop()
stack_pop(stack) ==
  [top |-> stack[Len(stack)], rest |-> SubSeq(stack, 1, Len(stack) - 1)]

\* What request_handler gives back to the connection driver.
NoResult == [kind |-> "Pending", response |-> NoResponse]
Returned_as_error(resp) == [kind |-> "Err", response |-> resp]
Returned(resp) == [kind |-> "Ok", response |-> resp]
TimedOut == [kind |-> "Err", response |-> NoResponse]

\* tokio::spawn(async move { match hyper::upgrade::on(request).await { .. } }):
\* the task spawned for a CONNECT request first awaits the upgrade of the
\* connection.
connect_task_spawned == "upgrading"

NoTasks ==
  [connect |-> "none", websocket |-> "none", parallel |-> "none",
   connect_handler |-> 0, websocket_handler |-> 0]

\* What the chain walk reads of an outcome: which of its fields are present.
outcome_shape(o) ==
  [ok |-> o.ok, response |-> o.response.some, response_status |-> o.response.status,
   status |-> o.status, request |-> o.request, auth_data |-> o.auth_data,
   new_remote_address |-> o.new_remote_address, parallel_fn |-> o.parallel_fn]

\* The side effects of an outcome applied for a continuing outcome only.
applies_side_effects_on_continue(o) == o.ok /\ primary(o) = "request"

\* Ok(response) => { .. }: auth_data, new_remote_address and parallel_fn of
\* an outcome are taken up before the match on its response, status and
\* request.
applies_side_effects(o) == o.ok

\* SocketData::new(remote_address, local_address, encrypted)
SocketData_new(remote_address) == [remote_addr |-> remote_address]

\* A walk that drops the address a handler returned.
rewrite_remote_addr_dropped(data, new_remote_address) == data

\* if let Some(new_remote_address) = new_remote_address
\*   { socket_data.remote_addr = new_remote_address; }
rewrite_remote_addr(data, new_remote_address) ==
  IF new_remote_address # NoAddress THEN [data EXCEPT !.remote_addr = new_remote_address]
  ELSE data

\* An access log that names the latest user on every exit.
log_auth_user_always_latest(exit, latest) == latest

\* The auth_user argument of log_combined: the user of the last outcome on the
\* exits of the chain walk, None on every other exit.
log_auth_user(exit, latest) ==
  IF exit \in {"response", "status", "error", "notfound"} THEN latest ELSE NoUser

(***************************************************************************)
(* The state of one request.                                               *)
(***************************************************************************)
VARIABLES
  cfg,               \* global_config_root
  pc,                \* where the pipeline is suspended
  clock,             \* milliseconds since request_handler was called
  deadline,          \* the Duration given to timeout(), if any
  request,           \* the request as the pipeline carries it
  host_received,     \* the Host header as received
  config_resolution, \* whether combine_config ran, and its Host argument
  idx,               \* the handler the chain walk visits next
  executed_handlers, \* the stack of handlers whose forward entry ran
  response,          \* the response being built
  saved_headers,     \* `headers` of the outcome that ended the walk
  fin,               \* header work still due before the return
  err_pending,       \* error-log text being sent
  path,              \* which exit of the pipeline the request took
  collapsed,         \* a response-modifying handler failed
  logger,            \* records sent to the log channel, in order
  tasks,             \* tasks detached with tokio::spawn
  forward_calls,     \* forward entry points invoked, in order
  post_calls,        \* response-modifying entry points invoked, in order
  outcomes,          \* what each forward entry point returned
  hosts_seen,        \* Host headers handed to forward entry points
  handler_set,       \* header names that handlers have put on a response
  result,            \* what request_handler returned
  request_no,        \* which request of the connection this is
  rewritten_in,      \* the requests in which a handler rewrote the remote address
  socket_data,       \* SocketData of the request: its remote address
  latest_auth_data,  \* the authenticated user of the last outcome
  modules,           \* what each module of the server advertises, in chain order
  handlers_vec,      \* the handlers the iterator of the request has still to yield
  channel_len,       \* records held by the log channel
  producer,          \* what each sender of log records is doing
  log_file,          \* log_file_wrapped / error_log_file_wrapped: open or None
  write_task,        \* the write tasks the logging loop has spawned
  spawned,           \* how many write tasks the logging loop has spawned so far
  file_lines,        \* per log file, the lines a write took, in order, and where each is now
  file_op,           \* per log file, the write of its tokio File on the blocking pool
  holders,           \* per log file, the tasks that hold its MutexGuard
  flush_pc,          \* where the periodic flush task is
  server_pc,         \* where server_event_loop is
  listener,          \* the plaintext TcpListener is bound
  listener_tls,      \* the encrypted TcpListener is bound
  server_result,     \* what server_event_loop returned
  server_log,        \* error records the accept loop and the connection tasks gave to send()
  conn,              \* the connections accepted
  accept_failures,   \* how many accept() calls returned an error
  startup,           \* what server_event_loop computed before binding
  buffer,            \* per log file, the records in its BufWriter
  disk,              \* per log file, the records that are in the file
  now,               \* milliseconds since start_server created the runtimes
  next_tick,         \* when the interval of the flush task ticks next
  start_pc,          \* where start_server is
  wake_at,           \* when the sleep of start_server ends
  xff_in,            \* the request and socket data given to the X-Forwarded-For handler
  xff_out,           \* what the X-Forwarded-For handler returned
  resolve_in,        \* two request paths and the allowDoubleSlashes flag
  resolve_out,       \* per request, the configuration and the path the pipeline computed
  errpage_in,        \* a status code, the errorPages list and the files it names
  errpage_out        \* where generate_error_response is, the body and Content-Length it chose

pipeline_vars ==
  <<cfg, pc, clock, deadline, request, host_received, config_resolution,
    idx, executed_handlers, response, saved_headers, fin, err_pending,
    path, collapsed, logger, tasks, forward_calls, post_calls, outcomes,
    hosts_seen, handler_set, result, request_no, rewritten_in, socket_data,
    latest_auth_data, modules, handlers_vec>>

channel_vars == <<channel_len, producer>>
sink_vars == <<log_file, write_task, holders, flush_pc, buffer, disk, spawned, file_lines, file_op>>
shutdown_vars == <<now, next_tick, start_pc, wake_at>>
module_vars == <<xff_in, xff_out, resolve_in, resolve_out, errpage_in, errpage_out>>
listener_vars ==
  <<server_pc, listener, listener_tls, server_result, server_log, conn, accept_failures,
    startup>>
server_vars == <<channel_vars, sink_vars, listener_vars, shutdown_vars, module_vars>>
vars == <<pipeline_vars, server_vars>>

NoRequest ==
  [is_proxy_request |-> FALSE, is_websocket_request |-> FALSE, host |-> NoHost,
   asterisk_form |-> "no"]

\* No entry point of the X-Forwarded-For handler has been called.
NoXffCall == [called |-> FALSE]

RequestNotStarted ==
  /\ pc = "idle"
  /\ clock = 0
  /\ deadline = NoDeadline
  /\ request = NoRequest
  /\ host_received = NoHost
  /\ config_resolution = [done |-> FALSE, host |-> NoHost, host_skipped |-> FALSE]
  /\ idx = 1
  /\ executed_handlers = <<>>
  /\ response = NoResponse
  /\ saved_headers = NoHeaderMap
  /\ fin = "none"
  /\ err_pending = ""
  /\ path = "none"
  /\ collapsed = FALSE
  /\ logger = <<>>
  /\ tasks = NoTasks
  /\ forward_calls = <<>>
  /\ post_calls = <<>>
  /\ outcomes = <<>>
  /\ hosts_seen = {}
  /\ handler_set = {}
  /\ result = NoResult
  /\ request_no = 1
  /\ rewritten_in = {}
  /\ socket_data = [remote_addr |-> NoAddress]
  /\ latest_auth_data = NoUser
  /\ handlers_vec = <<>>

NoResolution == <<>>
\* generate_error_response has not been called.
NoErrorPageCall == [called |-> FALSE]
NoRequestYet ==
  /\ RequestNotStarted
  /\ xff_in = NoXffCall
  /\ xff_out = NoXffCall
  /\ resolve_in = NoResolution
  /\ resolve_out = NoResolution
  /\ errpage_in = NoErrorPageCall
  /\ errpage_out = NoErrorPageCall

LogFiles == {"access", "error"}
NumProducers == 2
Producers == 1..NumProducers
MaxWriteTasks == 3
WriteTasks == 1..MaxWriteTasks
NoWriteTask == [state |-> "unused", file |-> "access", no |-> 0, size |-> 0]

\* start_server before any record is sent: the channel is empty, no write
\* task is spawned, the flush task waits for its first tick, no lock is held.
LoggingAtRest ==
  /\ channel_len = 0
  /\ producer = [p \in Producers |-> "idle"]
  /\ write_task = [t \in WriteTasks |-> NoWriteTask]
  /\ spawned = 0
  /\ file_lines = [f \in LogFiles |-> <<>>]
  /\ file_op = [f \in LogFiles |-> "idle"]
  /\ holders = [f \in LogFiles |-> {}]
  /\ flush_pc = "tick"
  /\ buffer = [f \in LogFiles |-> 0]
  /\ disk = [f \in LogFiles |-> 0]
  /\ now = 0
  /\ next_tick = 0
  /\ start_pc = "event_loop"
  /\ wake_at = 0

YamlBoolean(b) == [kind |-> "Boolean", v |-> IF b THEN 1 ELSE 0]
as_bool(yaml) == [some |-> yaml.kind = "Boolean", value |-> yaml.kind = "Boolean" /\ yaml.v = 1]

\* yaml_config["global"][key]: a key that is absent reads as BadValue.
YamlIndex(hash, key) == IF key \in DOMAIN hash THEN hash[key] ELSE YamlBadValue

\* The ALPN protocols put into the TLS configuration.
alpn_protocols(global) ==
  LET enable_http2 == as_bool(YamlIndex(global, "enableHTTP2")) IN
  IF enable_http2.some /\ enable_http2.value
  THEN <<"h2", "http/1.1", "http/1.0">>
  ELSE <<"http/1.1", "http/1.0">>

\* A connection builder that falls back to HTTP/1.x only when HTTP/2 is
\* switched off explicitly.
http1_only_when_false(root) ==
  LET enable_http2 == as_bool(ConfigGet(root, "enableHTTP2")) IN
  enable_http2.some /\ ~enable_http2.value

\* Whether the builder of a connection is made http1_only().
http1_only(root) ==
  LET enable_http2 == as_bool(ConfigGet(root, "enableHTTP2")) IN
  IF enable_http2.some THEN ~enable_http2.value ELSE TRUE

YamlText(text) == [kind |-> "String", v |-> 0, text |-> text]
as_str(yaml) ==
  [some |-> yaml.kind = "String",
   text |-> IF "text" \in DOMAIN yaml THEN yaml.text ELSE ""]

TlsVersionsAllowed(versions) == [ok |-> TRUE, versions |-> versions, error |-> ""]
TlsVersionError(text) == [ok |-> FALSE, versions |-> {}, error |-> text]

\* A version match that takes whatever minimum it is given when the maximum
\* is older.
tls_protocol_versions_unordered(global) ==
  LET min == as_str(YamlIndex(global, "tlsMinVersion"))
      max == as_str(YamlIndex(global, "tlsMaxVersion"))
  IN
  IF min.some /\ min.text = "TLSv1.3"
  THEN IF ~max.some \/ max.text \in {"TLSv1.2", "TLSv1.3"}
       THEN TlsVersionsAllowed({"TLSv1.3"})
       ELSE TlsVersionError("Invalid maximum TLS version")
  ELSE IF ~min.some \/ min.text = "TLSv1.2"
  THEN IF max.some /\ max.text = "TLSv1.2" THEN TlsVersionsAllowed({"TLSv1.2"})
       ELSE IF ~max.some \/ max.text = "TLSv1.3"
       THEN TlsVersionsAllowed({"TLSv1.2", "TLSv1.3"})
       ELSE TlsVersionError("Invalid maximum TLS version")
  ELSE TlsVersionError("Invalid minimum TLS version")

\* The match on tlsMinVersion and tlsMaxVersion: the protocol versions given
\* to ServerConfig::builder_with_protocol_versions, or the fatal error.
tls_protocol_versions(global) ==
  LET min == as_str(YamlIndex(global, "tlsMinVersion"))
      max == as_str(YamlIndex(global, "tlsMaxVersion"))
  IN
  IF min.some /\ min.text = "TLSv1.3"
  THEN IF max.some /\ max.text = "TLSv1.2"
       THEN TlsVersionError("The maximum TLS version is older than the minimum TLS version")
       ELSE IF ~max.some \/ max.text = "TLSv1.3"
       THEN TlsVersionsAllowed({"TLSv1.3"})
       ELSE TlsVersionError("Invalid maximum TLS version")
  ELSE IF ~min.some \/ min.text = "TLSv1.2"
  THEN IF max.some /\ max.text = "TLSv1.2" THEN TlsVersionsAllowed({"TLSv1.2"})
       ELSE IF ~max.some \/ max.text = "TLSv1.3"
       THEN TlsVersionsAllowed({"TLSv1.2", "TLSv1.3"})
       ELSE TlsVersionError("Invalid maximum TLS version")
  ELSE TlsVersionError("Invalid minimum TLS version")

as_i64(yaml) == [some |-> yaml.kind = "Integer", value |-> IF yaml.kind = "Integer" THEN yaml.v ELSE 0]

SocketAddr(ip, port) == [ip |-> ip, port |-> port]
NoSocketAddr == SocketAddr("", 0)
AddrOk(addr) == [ok |-> TRUE, addr |-> addr, error |-> ""]
AddrError(text) == [ok |-> FALSE, addr |-> NoSocketAddr, error |-> text]

\* i64 to u16 (try_into).
PortFits(n) == 0 <= n /\ n <= 65535

\* str::parse::<SocketAddr> on the address texts the configurations use; a
\* text without an IP address and a port does not parse.
ParseSocketAddr(text) ==
  CASE text = "[::]:8080" -> AddrOk(SocketAddr("::", 8080))
    [] text = "[::]:8443" -> AddrOk(SocketAddr("::", 8443))
    [] text = "127.0.0.1:8443" -> AddrOk(SocketAddr("127.0.0.1", 8443))
    [] OTHER -> AddrError("invalid socket address syntax")

\* The address of the plaintext listener.
listen_addr(global) ==
  LET port == YamlIndex(global, "port") IN
  IF as_i64(port).some
  THEN IF PortFits(as_i64(port).value)
       THEN AddrOk(SocketAddr("::", as_i64(port).value))
       ELSE AddrError("Invalid HTTP port")
  ELSE IF as_str(port).some
  THEN IF ParseSocketAddr(as_str(port).text).ok
       THEN ParseSocketAddr(as_str(port).text)
       ELSE AddrError("Invalid HTTP port")
  ELSE AddrOk(SocketAddr("::", 80))

\* The address of the encrypted listener: `sport` when it is an integer, else
\* `port` when that is a string.
listen_addr_tls(global) ==
  LET sport == YamlIndex(global, "sport")
      port == YamlIndex(global, "port")
  IN
  IF as_i64(sport).some
  THEN IF PortFits(as_i64(sport).value)
       THEN AddrOk(SocketAddr("::", as_i64(sport).value))
       ELSE AddrError("Invalid HTTPS port")
  ELSE IF as_str(port).some
  THEN IF ParseSocketAddr(as_str(port).text).ok
       THEN ParseSocketAddr(as_str(port).text)
       ELSE AddrError("Invalid HTTPS port")
  ELSE AddrOk(SocketAddr("::", 443))

\* What server_event_loop has computed from the configuration when it binds.
server_startup(global) ==
  [alpn_protocols |-> alpn_protocols(global),
   tls_versions |-> tls_protocol_versions(global).versions,
   addr |-> listen_addr(global).addr,
   addr_tls |-> listen_addr_tls(global).addr]
NotStarted ==
  [alpn_protocols |-> <<>>, tls_versions |-> {}, addr |-> NoSocketAddr, addr_tls |-> NoSocketAddr]

MaxConnections == 2
Connections == 1..MaxConnections
NoConnection == [state |-> "none", tls |-> FALSE, http2 |-> FALSE, sending |-> FALSE]
\* The task of a connection once it has built its hyper builder.
ServedConnection(tls) ==
  [state |-> "serving", tls |-> tls, http2 |-> ~http1_only(cfg), sending |-> FALSE]
MaxAcceptFailures == 1
ServerRunning == "running"

\* The accept loop with the plaintext listener bound and one connection
\* accepted, whose service function calls request_handler.
ServingOneConnection ==
  /\ server_pc = "loop"
  /\ listener = TRUE
  /\ listener_tls = FALSE
  /\ server_result = ServerRunning
  /\ server_log = <<>>
  /\ conn = [c \in Connections |->
               IF c = 1 THEN ServedConnection(FALSE) ELSE NoConnection]
  /\ accept_failures = 0
  /\ startup = server_startup(cfg)

ServerAtRest ==
  /\ LoggingAtRest
  /\ log_file = [f \in LogFiles |-> "open"]
  /\ ServingOneConnection

Init ==
  /\ cfg \in Configs
  /\ modules \in UsualChains
  /\ NoRequestYet
  /\ ServerAtRest


(***************************************************************************)
(* request_handler_wrapped up to its first suspension point: the exit the  *)
(* request takes before the chain walk, or "chain".                        *)
(***************************************************************************)
Exit(kind, resp, err, how, host, resolved, cfg_host) ==
  [kind |-> kind, response |-> resp, err |-> err, fin |-> how, host |-> host,
   resolved |-> resolved, cfg_host |-> cfg_host]

\* An answer to the asterisk form without the Allow header.
asterisk_response_without_allow(method) ==
  IF method = "OPTIONS" THEN Response(204, EmptyHeaders)
  ELSE generate_error_response(400, SomeHeaderMap(EmptyHeaders))

\* if request.uri().path() == "*": 204 for OPTIONS, the 400 error page for
\* every other method, both with Allow: GET, POST, HEAD, OPTIONS.
asterisk_response(method) ==
  IF method = "OPTIONS" THEN Response(204, AllowHeaders)
  ELSE generate_error_response(400, SomeHeaderMap(AllowHeaders))

wrapped_prefix(root, req, found, sanitized, connect_capable) ==
  LET norm == host_normalization(req.host)
      cfg_host == combine_config_host(req, norm.host)
      combined == combine_config(root, found)
      url_path == IF sanitized = "changed" THEN "/sanitized" ELSE req.path
  IN
  IF ~norm.ok
  THEN Exit("host400", error_page_response(400), "Host header sanitation error",
            "server", norm.host, FALSE, NoHost)
  ELSE IF ~combined.some
  THEN Exit("cfg500", error_page_response(500),
            "Cannot determine server configuration", "server", norm.host, TRUE, cfg_host)
  ELSE IF sanitized \in {"error", "unbuildable"}
  THEN Exit("san400", generate_error_response(400, NoHeaderMap),
            "URL sanitation error", "custom", norm.host, TRUE, cfg_host)
  ELSE IF url_path = "*"
  THEN Exit("asterisk", asterisk_response(req.method),
            "", "custom", norm.host, TRUE, cfg_host)
  ELSE IF is_connect_proxy_request(req)
  THEN IF ~connect_capable
       THEN Exit("connect501", Response(501, EmptyHeaders), "", "custom",
                 norm.host, TRUE, cfg_host)
       ELSE IF ~req.uri_host
       THEN Exit("connect400", Response(400, EmptyHeaders), "", "custom",
                 norm.host, TRUE, cfg_host)
       ELSE Exit("connect200", Response(200, EmptyHeaders), "", "custom",
                 norm.host, TRUE, cfg_host)
  ELSE Exit("chain", NoResponse, "", "none", norm.host, TRUE, cfg_host)

(***************************************************************************)
(* The end of every exit: the error-log record, the access-log record, the *)
(* remaining header work and the return.                                   *)
(***************************************************************************)
log_and_return(resp, err, how) ==
  /\ response' = resp
  /\ fin' = how
  /\ IF err # "" /\ error_log_enabled(cfg)
     THEN /\ pc' = "errlog"
          /\ err_pending' = err
          /\ UNCHANGED <<logger, result>>
     ELSE /\ err_pending' = ""
          /\ IF log_enabled(cfg)
             THEN pc' = "acclog" /\ UNCHANGED <<logger, result>>
             ELSE /\ pc' = "done"
                  /\ result' = Returned(finalize(cfg, resp, how))
                  /\ UNCHANGED logger

\* request_handler: computes the deadline and runs request_handler_wrapped
\* up to its first suspension point.
request_handler(req, found, sanitized) ==
  /\ pc = "idle"
  /\ sanitized \in sanitize_outcomes(req.path)
  /\ LET chain == get_handlers(modules)
         connect_proxy_handlers == select_connect_handler(chain)
         chain_empty == chain = <<>>
         x == wrapped_prefix(cfg, req, found, sanitized, connect_proxy_handlers # 0)
     IN
     /\ handlers_vec' = IF x.kind = "chain" THEN chain ELSE <<>>
     /\ deadline' = request_deadline(cfg)
     /\ socket_data' = SocketData_new(CONNECTION_REMOTE)
     /\ latest_auth_data' = NoUser
     /\ host_received' = req.host
     /\ request' = [is_proxy_request |-> is_proxy_request(req),
                    is_websocket_request |-> req.upgrade /\ x.kind = "chain",
                    host |-> x.host,
                    asterisk_form |-> asterisk_form(req)]
     /\ config_resolution' =
          [done |-> x.resolved, host |-> x.cfg_host,
           host_skipped |-> x.resolved
                            /\ (is_proxy_request(req) \/ is_connect_proxy_request(req))]
     /\ tasks' = IF x.kind = "connect200"
                 THEN [tasks EXCEPT !.connect = connect_task_spawned,
                                    !.connect_handler = connect_proxy_handlers]
                 ELSE tasks
     /\ IF x.kind = "chain" /\ ~chain_empty
        THEN /\ pc' = "chain"
             /\ path' = "none"
             /\ UNCHANGED <<response, fin, err_pending, logger, result>>
        ELSE IF x.kind = "chain"
        THEN /\ path' = "notfound"
             /\ log_and_return(finalize(cfg, generate_error_response(404, NoHeaderMap), "custom"),
                     "", "none")
        ELSE /\ path' = x.kind
             /\ log_and_return(x.response, x.err, x.fin)
  /\ UNCHANGED <<server_vars, cfg, modules, request_no, rewritten_in,
                 clock, idx, executed_handlers, saved_headers, collapsed,
                 forward_calls, post_calls, outcomes, hosts_seen, handler_set>>

\* logger.send(LogMessage::new(<error text>, true)).await
send_error_log ==
  /\ pc = "errlog"
  /\ logger' = Append(logger, error_message(err_pending))
  /\ err_pending' = ""
  /\ IF log_enabled(cfg)
     THEN pc' = "acclog" /\ UNCHANGED result
     ELSE pc' = "done" /\ result' = Returned(finalize(cfg, response, fin))
  /\ UNCHANGED <<server_vars, cfg, modules, handlers_vec, request_no, rewritten_in, socket_data, latest_auth_data,
                 clock, deadline, request, host_received,
                 config_resolution, idx, executed_handlers, response,
                 saved_headers, fin, path, collapsed, tasks, forward_calls,
                 post_calls, outcomes, hosts_seen, handler_set>>

\* log_combined(...).await, the remaining header work and the return.
send_access_log ==
  /\ pc = "acclog"
  /\ logger' = logger \o access_log_records(log_enabled(cfg), socket_data.remote_addr,
                                             log_auth_user(path, latest_auth_data), response)
  /\ pc' = "done"
  /\ result' = Returned(finalize(cfg, response, fin))
  /\ UNCHANGED <<server_vars, cfg, modules, handlers_vec, request_no, rewritten_in, socket_data, latest_auth_data,
                 clock, deadline, request, host_received,
                 config_resolution, idx, executed_handlers, response,
                 saved_headers, fin, err_pending, path, collapsed, tasks,
                 forward_calls, post_calls, outcomes, hosts_seen, handler_set>>

\* A walk that never takes the WebSocket branch.
websocket_branch_never(is_websocket, handlers) == FALSE

\* if is_websocket_request && handlers.does_websocket_requests(..): asked of
\* every handler the walk visits, before its forward entry point.
websocket_branch(is_websocket, handlers) == is_websocket /\ handlers.websocket

\* The handler visited advertises WebSocket capability on an upgrade request:
\* hyper_tungstenite::upgrade(request, None) returns the handshake response
\* and the WebSocket, or an error.
websocket_upgrade(handshake_ok) ==
  /\ pc = "chain"
  /\ websocket_branch(request.is_websocket_request, Head(handlers_vec))
  /\ handlers_vec' = <<>>
  /\ IF handshake_ok
     THEN /\ tasks' = [tasks EXCEPT !.websocket = "running", !.websocket_handler = idx]
          /\ path' = "websocket"
          /\ log_and_return(original_response, "", "custom")
     ELSE /\ tasks' = tasks
          /\ path' = "websocket500"
          /\ log_and_return(error_page_response(500), "Error while upgrading WebSocket request",
                  "custom")
  /\ UNCHANGED <<server_vars, cfg, modules, request_no, rewritten_in, socket_data, latest_auth_data,
                 clock, deadline, request, host_received,
                 config_resolution, idx, executed_handlers, saved_headers,
                 collapsed, forward_calls, post_calls, outcomes, hosts_seen,
                 handler_set>>

\* One turn of the chain walk: the handler that handlers_vec yields is not
\* asked for a WebSocket upgrade, and its forward entry point returns o.
forward_handler(o) ==
  /\ pc = "chain"
  /\ ~websocket_branch(request.is_websocket_request, Head(handlers_vec))
  /\ handlers_vec' = IF o.ok /\ primary(o) = "request" THEN Tail(handlers_vec) ELSE <<>>
  /\ forward_calls' =
       Append(forward_calls,
              [handler |-> idx,
               entry |-> IF request.is_proxy_request THEN "proxy_request_handler"
                         ELSE "request_handler",
               remote_addr |-> socket_data.remote_addr,
               auth_user |-> latest_auth_data])
  /\ hosts_seen' = hosts_seen \cup {request.host}
  /\ executed_handlers' = Append(executed_handlers, idx)
  /\ outcomes' = Append(outcomes, outcome_shape(o))
  /\ tasks' = IF applies_side_effects(o) /\ o.parallel_fn
               THEN [tasks EXCEPT !.parallel = "running"] ELSE tasks
  /\ latest_auth_data' = IF o.ok THEN o.auth_data ELSE latest_auth_data
  /\ socket_data' = IF applies_side_effects(o)
                    THEN rewrite_remote_addr(socket_data, o.new_remote_address)
                    ELSE socket_data
  /\ rewritten_in' = IF applies_side_effects(o) /\ o.new_remote_address # NoAddress
                     THEN rewritten_in \cup {request_no} ELSE rewritten_in
  /\ IF ~o.ok
     THEN /\ response' = finalize(cfg, generate_error_response(500, NoHeaderMap), "custom")
          /\ saved_headers' = NoHeaderMap
          /\ handler_set' = handler_set
          /\ path' = "error"
          /\ pc' = "post"
          /\ idx' = idx
     ELSE IF primary(o) = "response"
     THEN /\ response' = finalize(cfg, o.response, "custom")
          /\ saved_headers' = o.headers
          /\ handler_set' = handler_set \cup header_names_of(o.response.headers)
          /\ path' = "response"
          /\ pc' = "post"
          /\ idx' = idx
     ELSE IF primary(o) = "status"
     THEN /\ response' = finalize(cfg, generate_error_response(o.status, o.headers), "custom")
          /\ saved_headers' = o.headers
          /\ handler_set' =
               handler_set \cup header_names_of(generate_error_response(o.status, o.headers).headers)
          /\ path' = "status"
          /\ pc' = "post"
          /\ idx' = idx
     ELSE IF primary(o) = "request" /\ Tail(handlers_vec) # <<>>
     THEN /\ idx' = idx + 1
          /\ pc' = "chain"
          /\ UNCHANGED <<response, saved_headers, handler_set, path>>
     ELSE /\ response' = finalize(cfg, generate_error_response(404, NoHeaderMap), "custom")
          /\ saved_headers' = NoHeaderMap
          /\ handler_set' = handler_set
          /\ path' = "notfound"
          /\ pc' = "post"
          /\ idx' = IF primary(o) = "request" THEN idx + 1 ELSE idx
  /\ UNCHANGED <<server_vars, cfg, modules, request_no,
                 clock, deadline, request, host_received,
                 config_resolution, fin, err_pending, collapsed, logger,
                 post_calls, result>>

\* One turn of a post-processing loop: the response-modifying entry point of
\* the handler popped from the stack returns b.
response_modifying_handler(b) ==
  /\ pc = "post"
  /\ executed_handlers # <<>>
  /\ LET popped == stack_pop(executed_handlers) IN
     /\ executed_handlers' = popped.rest
     /\ post_calls' =
          Append(post_calls,
                 [handler |-> popped.top,
                  entry |-> IF request.is_proxy_request
                            THEN "proxy_response_modifying_handler"
                            ELSE "response_modifying_handler"])
     /\ IF b = "err"
        THEN /\ collapsed' = TRUE
             /\ handler_set' =
                  handler_set \cup header_names_of(generate_error_response(500, saved_headers).headers)
             /\ log_and_return(generate_error_response(500, saved_headers),
                     "Unexpected error while serving a request (post)", "custom")
        ELSE /\ collapsed' = collapsed
             /\ handler_set' = IF b = "set" THEN handler_set \cup {"x-test"} ELSE handler_set
             /\ IF popped.rest = <<>>
                THEN log_and_return(modified_response(b, response),
                          IF path = "error"
                          THEN "Unexpected error while serving a request (forward)"
                          ELSE "",
                          "none")
                ELSE /\ response' = modified_response(b, response)
                     /\ pc' = "post"
                     /\ UNCHANGED <<fin, err_pending, logger, result>>
  /\ UNCHANGED <<server_vars, cfg, modules, handlers_vec, request_no, rewritten_in, socket_data, latest_auth_data,
                 clock, deadline, request, host_received,
                 config_resolution, idx, saved_headers, path, tasks,
                 forward_calls, outcomes, hosts_seen>>

(***************************************************************************)
(* Time, the deadline, and the detached tasks.                             *)
(***************************************************************************)
Awaiting == {"errlog", "acclog", "chain", "post"}

\* Time passes while the operation the pipeline awaits is pending.
Tick ==
  /\ pc \in Awaiting
  /\ clock < MaxClock
  /\ clock' = IF clock + TickMs > MaxClock THEN MaxClock ELSE clock + TickMs
  /\ UNCHANGED <<server_vars, cfg, modules, handlers_vec, request_no, rewritten_in, socket_data, latest_auth_data,
                 pc, deadline, request, host_received,
                 config_resolution, idx, executed_handlers, response,
                 saved_headers, fin, err_pending, path, collapsed, logger, tasks,
                 forward_calls, post_calls, outcomes, hosts_seen, handler_set, result>>

\* A timer that reports the error and leaves the pipeline running.
Timeout_keeps_pipeline ==
  /\ pc \in Awaiting
  /\ deadline_elapsed(clock, deadline)
  /\ result.kind = "Pending"
  /\ result' = TimedOut
  /\ UNCHANGED <<server_vars, cfg, modules, handlers_vec, request_no, rewritten_in, socket_data, latest_auth_data,
                 pc, clock, deadline, request, host_received,
                 config_resolution, idx, executed_handlers, response,
                 saved_headers, fin, err_pending, path, collapsed, logger, tasks,
                 forward_calls, post_calls, outcomes, hosts_seen, handler_set>>

\* timeout(...) resolves to Err(Elapsed): the pipeline future is dropped.
Timeout ==
  /\ pc \in Awaiting
  /\ deadline_elapsed(clock, deadline)
  /\ pc' = "timedout"
  /\ result' = TimedOut
  /\ handlers_vec' = <<>>
  /\ UNCHANGED <<server_vars, cfg, modules, request_no, rewritten_in, socket_data, latest_auth_data,
                 clock, deadline, request, host_received,
                 config_resolution, idx, executed_handlers, response,
                 saved_headers, fin, err_pending, path, collapsed, logger, tasks,
                 forward_calls, post_calls, outcomes, hosts_seen, handler_set>>

TaskKinds == {"connect", "websocket", "parallel"}

\* A task detached with tokio::spawn runs to its end on the runtime.
detached_task_finishes(kind) ==
  /\ tasks[kind] = "running"
  /\ tasks' = [tasks EXCEPT ![kind] = "finished"]
  /\ UNCHANGED <<server_vars, cfg, modules, handlers_vec, request_no, rewritten_in, socket_data, latest_auth_data,
                 pc, clock, deadline, request, host_received,
                 config_resolution, idx, executed_handlers, response,
                 saved_headers, fin, err_pending, path, collapsed, logger,
                 forward_calls, post_calls, outcomes, hosts_seen, handler_set, result>>

CONNECT_UPGRADE_ERROR_TEXT == "Error while upgrading HTTP CONNECT request"

\* The await of hyper::upgrade::on(request) in the CONNECT task ends.  When
\* it ends, and how, is decided by the connection driver of hyper and not by
\* request_handler: the task is spawned before the access-log send and
\* before the return, and it awaits the upgrade by itself.  On Ok the task
\* calls connect_proxy_request_handler; on Err it reports the error through
\* its ErrorLogger and the handler is never called.
connect_task_upgrades(upgraded) ==
  /\ tasks.connect = "upgrading"
  /\ IF upgraded
     THEN /\ tasks' = [tasks EXCEPT !.connect = "running"]
          /\ UNCHANGED logger
     ELSE /\ tasks' = [tasks EXCEPT !.connect = "finished"]
          /\ logger' = IF error_log_enabled(cfg)
                       THEN Append(logger, error_message(CONNECT_UPGRADE_ERROR_TEXT))
                       ELSE logger
  /\ UNCHANGED <<server_vars, cfg, modules, handlers_vec, request_no, rewritten_in, socket_data, latest_auth_data,
                 pc, clock, deadline, request, host_received,
                 config_resolution, idx, executed_handlers, response,
                 saved_headers, fin, err_pending, path, collapsed,
                 forward_calls, post_calls, outcomes, hosts_seen, handler_set, result>>

TASK_ERROR_TEXT ==
  [kind \in {"connect", "websocket"} |->
     IF kind = "connect" THEN "Unexpected error for CONNECT request"
     ELSE "Unexpected error for WebSocket request"]

\* A detached CONNECT or WebSocket task ends with an error (the upgrade or the
\* handler failed) and reports it through its ErrorLogger, which holds the
\* log channel only when the error log is enabled.
detached_task_fails(kind) ==
  /\ kind \in DOMAIN TASK_ERROR_TEXT
  /\ tasks[kind] = "running"
  /\ tasks' = [tasks EXCEPT ![kind] = "finished"]
  /\ logger' = IF error_log_enabled(cfg)
               THEN Append(logger, error_message(TASK_ERROR_TEXT[kind]))
               ELSE logger
  /\ UNCHANGED <<server_vars, cfg, modules, handlers_vec, request_no, rewritten_in, socket_data, latest_auth_data,
                 pc, clock, deadline, request, host_received,
                 config_resolution, idx, executed_handlers, response,
                 saved_headers, fin, err_pending, path, collapsed,
                 forward_calls, post_calls, outcomes, hosts_seen, handler_set, result>>

\* The connection driver calls request_handler for the next request of the
\* connection once the response of the previous one is returned; the records
\* of the previous request have left the channel.
next_request ==
  /\ pc = "done"
  /\ request_no < MaxRequests
  /\ request_no' = request_no + 1
  /\ pc' = "idle"
  /\ clock' = 0
  /\ deadline' = NoDeadline
  /\ request' = NoRequest
  /\ host_received' = NoHost
  /\ config_resolution' = [done |-> FALSE, host |-> NoHost, host_skipped |-> FALSE]
  /\ idx' = 1
  /\ executed_handlers' = <<>>
  /\ response' = NoResponse
  /\ saved_headers' = NoHeaderMap
  /\ fin' = "none"
  /\ err_pending' = ""
  /\ path' = "none"
  /\ collapsed' = FALSE
  /\ logger' = <<>>
  /\ forward_calls' = <<>>
  /\ post_calls' = <<>>
  /\ outcomes' = <<>>
  /\ hosts_seen' = {}
  /\ handler_set' = {}
  /\ result' = NoResult
  /\ socket_data' = [remote_addr |-> NoAddress]
  /\ latest_auth_data' = NoUser
  /\ UNCHANGED <<server_vars, cfg, modules, handlers_vec, tasks, rewritten_in>>

\* One step of the pipeline, for the requests, forward results and
\* response-modifying results given.
PipelineStep(requests, forward_results, post_results) ==
  \/ \E req \in requests, found \in BOOLEAN, sanitized \in SanitizeResults :
       request_handler(req, found, sanitized)
  \/ send_error_log
  \/ send_access_log
  \/ \E handshake_ok \in BOOLEAN : websocket_upgrade(handshake_ok)
  \/ \E o \in forward_results : forward_handler(o)
  \/ \E b \in post_results : response_modifying_handler(b)
  \/ \E kind \in TaskKinds : detached_task_finishes(kind)
  \/ \E kind \in TaskKinds : detached_task_fails(kind)
  \/ \E upgraded \in BOOLEAN : connect_task_upgrades(upgraded)

\* Requests whose Host header is lowercase text, or is not text.
RequestsLowercaseHost ==
  {req \in Requests : req.host \in {SomeHost(<<97, 46>>), SomeHost(<<65, 128>>)}}

\* Handler results that carry no headers of their own.
BareForwardResults ==
  {o \in ForwardResults : o.response # Response(200, HandlerHeaders) /\ ~o.headers.some}
BarePostResults == {"keep", "err"}

\* Spec: runs of the pipeline that end before any deadline.  Every
\* configuration without a `timeout` key, every handler behaviour.
InitPipeline == Init /\ "timeout" \notin DOMAIN cfg
NextPipeline == PipelineStep(RequestsLowercaseHost, ForwardResults, PostResults)
Spec == InitPipeline /\ [][NextPipeline]_vars

\* SpecHost: every Host header, under the configuration that enables both logs
\* and customHeaders.
InitHost == Init /\ cfg = MkConfig(TRUE, TRUE, TRUE, FALSE, YamlNull)
NextHost == PipelineStep(Requests, BareForwardResults, BarePostResults)
SpecHost == InitHost /\ [][NextHost]_vars

\* SpecTimed: the pipeline under the deadline of request_handler.  Every value
\* of `timeout` and of the two log options, the clock and the timer.
InitTimed == Init /\ "customHeaders" \in DOMAIN cfg
NextTimed ==
  \/ PipelineStep(RequestsLowercaseHost, BareForwardResults, BarePostResults)
  \/ Tick
  \/ Timeout
SpecTimed == InitTimed /\ [][NextTimed]_vars

\* The runtime keeps polling the timer: time passes and an elapsed deadline fires.
SpecFair == SpecTimed /\ WF_vars(Tick) /\ WF_vars(Timeout)

\* SpecLog: what the access-log record says.  Both logs enabled, customHeaders
\* that configure x-test or Content-Length; handlers that set the user, rewrite
\* the remote address and answer with bodies of known or unknown length;
\* several requests on one connection.
LogConfigs ==
  {MkConfig(TRUE, TRUE, TRUE, FALSE, YamlNull),
   [MkConfig(TRUE, TRUE, TRUE, FALSE, YamlNull) EXCEPT
      !["customHeaders"] = YamlHash(ContentLengthHeaderEntries)]}
LoggedRequests ==
  {req \in Requests : /\ req.method \in {"GET", "OPTIONS"}
                      /\ req.version = "HTTP/1.1"
                      /\ ~req.uri_host
                      /\ ~req.upgrade
                      /\ req.host = SomeHost(<<97, 46>>)}
LoggedResponses ==
  {Response(200, EmptyHeaders), StreamResponse(200, EmptyHeaders),
   StreamResponse(200, [EmptyHeaders EXCEPT !["content-length"] = "abc"])}
\* Outcomes that carry one thing (a request to go on with, a response, a
\* status, or nothing), each with every user and every remote address.
LoggedForwardResults ==
  {o \in [ok : {TRUE}, request : BOOLEAN, response : LoggedResponses \cup {NoResponse},
          status : {0, 403}, headers : {NoHeaderMap}, parallel_fn : {FALSE},
          auth_data : {NoUser, "alice"},
          new_remote_address : {NoAddress, "forwarded", "forwarded-again"}] :
     /\ o.response.some => (o.status = 0 /\ ~o.request)
     /\ o.status # 0 => ~o.request}
  \cup {HandlerError}
LoggedPostResults == {"keep", "resize", "err"}
InitLog == cfg \in LogConfigs /\ modules \in UsualChains /\ NoRequestYet /\ ServerAtRest
NextLog ==
  \/ \E req \in LoggedRequests, found \in BOOLEAN, sanitized \in SanitizeResults :
       request_handler(req, found, sanitized)
  \/ send_error_log
  \/ send_access_log
  \/ \E o \in LoggedForwardResults : forward_handler(o)
  \/ \E b \in LoggedPostResults : response_modifying_handler(b)
  \/ next_request
SpecLog == InitLog /\ [][NextLog]_vars

(***************************************************************************)
(* Properties of the pipeline.                                             *)
(***************************************************************************)
\* request_handler has returned a response to the connection driver.
ReturnedResponse == pc = "done" /\ result.kind = "Ok"
CustomHeadersConfigured == ConfigGet(cfg, "customHeaders").kind = "Hash"
AccessRecords == SelectSeq(logger, LAMBDA r : ~r.is_error)
TaskErrorTexts ==
  {TASK_ERROR_TEXT[k] : k \in DOMAIN TASK_ERROR_TEXT} \cup {CONNECT_UPGRADE_ERROR_TEXT}
PipelineRecords == SelectSeq(logger, LAMBDA r : r.msg \notin TaskErrorTexts)
ChainPaths == {"response", "status", "error", "notfound"}

\* C1: every response request_handler returns carries the Server header with
\* the product token, whatever the forward and the response-modifying entry
\* points did to the headers.
C1_ServerHeaderOnEveryResponse ==
  ReturnedResponse => result.response.headers["server"] = SERVER_SOFTWARE

\* C2 (as stated): with logFilePath set, every finished request, the one that
\* ran into the deadline included, has sent exactly one access-log record, and
\* its status is the status of the response returned.
C2_OneAccessRecordOnEveryPath ==
  (log_enabled(cfg) /\ pc \in {"done", "timedout"}) =>
     /\ Len(AccessRecords) = 1
     /\ pc = "done" => AccessRecords[1].status = result.response.status

\* C2 (amended): with logFilePath set, a request that returns a response has
\* sent exactly one access-log record, whose status is the status returned; a
\* request abandoned at the deadline has sent none; no request sends two.
C2_OneAccessRecordPerResponse ==
  log_enabled(cfg) =>
     /\ Len(AccessRecords) <= 1
     /\ pc = "done" => /\ Len(AccessRecords) = 1
                       /\ AccessRecords[1].status = result.response.status
     /\ pc # "done" => Len(AccessRecords) = 0

C2_Witness ==
  /\ log_enabled(cfg)
  /\ pc = "done"
  /\ collapsed
  /\ Len(AccessRecords) = 1
  /\ result.response.status = 500

\* C3 (as stated): when a handler has set header x-test, the response returned
\* never carries the customHeaders value for x-test.
C3_CustomHeaderNeverReplacesHandlerHeader ==
  (ReturnedResponse /\ CustomHeadersConfigured /\ "x-test" \in handler_set) =>
     result.response.headers["x-test"] # "ignored"

\* C3 (amended): when a handler has set header x-test and no response-modifying
\* handler failed, the response returned does not carry the customHeaders value
\* for x-test.  When a response-modifying handler failed, the response returned
\* is a new 500 which carries the customHeaders value unless the extra headers
\* of the outcome that ended the walk set x-test.
C3_CustomHeaderKeepsHandlerHeader ==
  (ReturnedResponse /\ CustomHeadersConfigured) =>
     /\ ("x-test" \in handler_set /\ ~collapsed) =>
           result.response.headers["x-test"] # "ignored"
     /\ collapsed =>
           result.response.headers["x-test"] =
              IF saved_headers.some /\ saved_headers.map["x-test"] # NoHeader
              THEN saved_headers.map["x-test"]
              ELSE "ignored"

C3_Witness ==
  /\ ReturnedResponse
  /\ CustomHeadersConfigured
  /\ "x-test" \in handler_set
  /\ ~collapsed
  /\ post_calls # <<>>
  /\ result.response.headers["x-test"] = "1"

\* C4: with customHeaders x-test configured, every response returned on which
\* no handler set x-test carries the configured value, the 400 of the Host
\* header step and post-processed responses included.
C4_CustomHeaderOnEveryResponse ==
  (ReturnedResponse /\ CustomHeadersConfigured /\ "x-test" \notin handler_set) =>
     result.response.headers["x-test"] = "ignored"

\* C5: on the main chain the response-modifying entry points run in the reverse
\* of the order of the forward entry points: what has run of them is a prefix
\* of that reverse order (no handler twice), it is the whole of it when the
\* request returns and no response-modifying handler failed, and each handler
\* is called through the entry point kind of its forward call.
C5_PostProcessingReversesForwardOrder ==
  LET n == Len(forward_calls)
      m == Len(post_calls)
  IN
  /\ m <= n
  /\ \A i \in 1..n : forward_calls[i].handler = i
  /\ \A i \in 1..m : post_calls[i].handler = forward_calls[n + 1 - i].handler
  /\ \A i \in 1..m :
        (post_calls[i].entry = "proxy_response_modifying_handler")
           <=> (forward_calls[n + 1 - i].entry = "proxy_request_handler")
  /\ (m > 0 /\ ~collapsed /\ pc # "post") => m = n
  /\ (pc = "done" /\ path \in ChainPaths /\ ~collapsed) => m = n
  /\ (m > 0 /\ collapsed) => pc # "post"

C5_Witness ==
  /\ pc = "done"
  /\ path \in ChainPaths
  /\ Len(forward_calls) = NumHandlers
  /\ Len(post_calls) = NumHandlers
  /\ ~collapsed

\* C6: within one outcome a response wins over a status, a status over a
\* continued request, and an outcome with none of them ends the walk.  Only a
\* request-only outcome lets the walk go on; the last outcome decides the exit
\* and the status of the response; a walk that ends with no response and no
\* status answers 404.
C6_OutcomePrecedence ==
  LET n == Len(outcomes) IN
  /\ \A i \in 1..n :
       LET o == outcomes[i]
           request_only == o.ok /\ ~o.response /\ o.status = 0 /\ o.request
       IN
       /\ i < n => request_only
       /\ i = n =>
            /\ ~o.ok => path = "error"
            /\ (o.ok /\ o.response) =>
                 /\ path = "response"
                 /\ ~collapsed => response.status = o.response_status
            /\ (o.ok /\ ~o.response /\ o.status # 0) =>
                 /\ path = "status"
                 /\ ~collapsed => response.status = o.status
            /\ request_only =>
                 /\ path \in {"none", "notfound", "websocket", "websocket500"}
                 /\ path = "none" => (pc = "chain" /\ idx = n + 1)
            /\ (o.ok /\ ~o.response /\ o.status = 0 /\ ~o.request) => path = "notfound"
  /\ (path = "notfound" /\ ~collapsed) => response.status = 404
  /\ (pc = "done" /\ path = "notfound" /\ ~collapsed) => result.response.status = 404

C6_Witness ==
  /\ pc = "done"
  /\ path = "response"
  /\ Len(outcomes) = NumHandlers
  /\ outcomes[Len(outcomes)].response
  /\ outcomes[Len(outcomes)].status = 403
  /\ outcomes[Len(outcomes)].request
  /\ ~collapsed
  /\ result.response.status = 200

\* C7 (as stated): whatever the handlers do, a slow handler included, a
\* finished request_handler has returned Ok with a response.
C7_AlwaysReturnsOk ==
  pc \in {"done", "timedout"} => (result.kind = "Ok" /\ result.response.some)

\* C7 (amended): request_handler returns Ok with a response on every path of
\* the pipeline, handler errors and response-modifying errors included; the
\* one error it returns is the expiry of the deadline, and only once the
\* deadline has passed.
C7_OkUnlessDeadlineExpires ==
  /\ pc = "done" => (result.kind = "Ok" /\ result.response.some)
  /\ pc = "timedout" => result.kind = "Err"
  /\ result.kind = "Err" => deadline_elapsed(clock, deadline)
  /\ pc \notin {"done", "timedout"} => result.kind # "Ok"

C7_Witness ==
  /\ pc = "done"
  /\ path = "error"
  /\ collapsed
  /\ deadline.some
  /\ result.kind = "Ok"
  /\ result.response.status = 500

TimeoutAbsent == "timeout" \notin DOMAIN cfg

\* C8: when `timeout` is not configured the deadline of a request is 300000 ms:
\* the request is not abandoned before 300000 ms have passed, and a run that
\* is still awaiting an operation is abandoned or returns.
C8_DefaultDeadline ==
  /\ []((TimeoutAbsent /\ pc # "idle") => deadline = [some |-> TRUE, ms |-> 300000])
  /\ []((TimeoutAbsent /\ pc = "timedout") => clock >= 300000)
  /\ (TimeoutAbsent /\ pc \in Awaiting) ~> (pc \in {"done", "timedout"})

C8_Witness ==
  /\ TimeoutAbsent
  /\ pc = "timedout"
  /\ clock >= 300000
  /\ forward_calls # <<>>
  /\ post_calls = <<>>

\* C9: the deadline error is returned only once the deadline has passed; from
\* then on no forward entry point and no response-modifying entry point runs,
\* the pipeline logs nothing and the result stays the error; the expiry cancels
\* no detached task: a detached task changes only by its own steps (the
\* CONNECT task that awaits the upgrade goes on when the await ends, a task
\* that is running can finish and report its own failure), and these steps
\* stay possible.
C9_NothingRunsAfterTimeout ==
  /\ [][/\ (result.kind # "Err" /\ result'.kind = "Err") =>
             /\ deadline_elapsed(clock, deadline)
             /\ tasks' = tasks
             /\ forward_calls' = forward_calls
             /\ post_calls' = post_calls
        /\ result.kind = "Err" =>
             /\ result' = result
             /\ forward_calls' = forward_calls
             /\ post_calls' = post_calls
             /\ PipelineRecords' = PipelineRecords
             /\ \A k \in TaskKinds :
                  \/ tasks'[k] \in {tasks[k], "finished"}
                  \/ tasks[k] = "upgrading" /\ tasks'[k] = "running"
             /\ \A k \in TaskKinds :
                  tasks[k] \notin {"running", "upgrading"} => tasks'[k] = tasks[k]
       ]_vars
  /\ [](result.kind = "Err" =>
          /\ \A k \in TaskKinds : tasks[k] = "running" => ENABLED detached_task_finishes(k)
          /\ tasks.connect = "upgrading" =>
               (ENABLED connect_task_upgrades(TRUE) /\ ENABLED connect_task_upgrades(FALSE)))

C9_Witness ==
  /\ pc = "timedout"
  /\ result.kind = "Err"
  /\ tasks.parallel = "running"
  /\ forward_calls # <<>>

IsUpper(b) == b >= 65 /\ b <= 90
NotText(bytes) == \E i \in 1..Len(bytes) : bytes[i] > 126 \/ (bytes[i] < 32 /\ bytes[i] # 9)
IsLowercaseOf(low, orig) ==
  /\ Len(low) = Len(orig)
  /\ \A i \in 1..Len(orig) :
       /\ ~IsUpper(low[i])
       /\ low[i] = orig[i] \/ (IsUpper(orig[i]) /\ low[i] = orig[i] + 32)

\* C10: a Host header that is not text is answered 400 before configuration
\* resolution and before any handler; otherwise the Host header that
\* configuration resolution and the forward entry points see is the lowercase
\* form of the one received, and a Host header already lowercase is the one
\* received.
C10_HostNormalization ==
  pc # "idle" =>
    IF host_received.some /\ NotText(host_received.bytes)
    THEN /\ path = "host400"
         /\ response.status = 400
         /\ ~config_resolution.done
         /\ forward_calls = <<>>
         /\ post_calls = <<>>
         /\ pc = "done" => result.response.status = 400
    ELSE /\ path # "host400"
         /\ config_resolution.done
         /\ request.host.some = host_received.some
         /\ IsLowercaseOf(request.host.bytes, host_received.bytes)
         /\ config_resolution.host =
              IF config_resolution.host_skipped THEN NoHost ELSE request.host
         /\ hosts_seen \subseteq {request.host}
         /\ (\A i \in 1..Len(host_received.bytes) : ~IsUpper(host_received.bytes[i]))
               => request.host = host_received

C10_Witness ==
  /\ pc = "done"
  /\ host_received = SomeHost(<<65, 46>>)
  /\ ~config_resolution.host_skipped
  /\ config_resolution.host = SomeHost(<<97, 46>>)
  /\ hosts_seen = {SomeHost(<<97, 46>>)}

\* C11: when a handler continued the request with the user alice and a later
\* handler, which sets no other user, produces the response or ends the walk in
\* 404, the user field of the access-log record is alice.
C11_AccessLogUserIsLastUserSet ==
  (/\ pc = "done"
   /\ path \in {"response", "notfound"}
   /\ ~collapsed
   /\ Len(outcomes) >= 2
   /\ \E i \in 1..(Len(outcomes) - 1) : outcomes[i].auth_data = "alice"
   /\ outcomes[Len(outcomes)].ok)
  => (Len(AccessRecords) = 1 /\ AccessRecords[1].user = "alice")

\* The remote address in force after the first k outcomes of the request: the
\* address of the last rewrite among them, else the address of the connection.
RemoteAddressAfter(k) ==
  LET rewrites == {j \in 1..k : outcomes[j].new_remote_address # NoAddress} IN
  IF rewrites = {} THEN CONNECTION_REMOTE
  ELSE outcomes[CHOOSE j \in rewrites : \A l \in rewrites : l <= j].new_remote_address

\* C12: every forward entry point is given the remote address as rewritten by
\* the handlers that ran before it in the same request, the access-log record
\* of the request carries the address as rewritten by all of them, and the
\* first handler of every request of the connection is given the address of
\* the connection.
C12_RemoteAddressRewrite ==
  /\ \A i \in 1..Len(forward_calls) :
        forward_calls[i].remote_addr = RemoteAddressAfter(i - 1)
  /\ forward_calls # <<>> => forward_calls[1].remote_addr = CONNECTION_REMOTE
  /\ pc = "done" =>
        /\ Len(AccessRecords) = 1
        /\ AccessRecords[1].client_ip = RemoteAddressAfter(Len(outcomes))

C12_Witness ==
  /\ request_no = 2
  /\ 1 \in rewritten_in
  /\ pc = "done"
  /\ Len(forward_calls) = 2
  /\ forward_calls[1].remote_addr = CONNECTION_REMOTE
  /\ forward_calls[2].remote_addr = "forwarded"
  /\ AccessRecords[1].client_ip = "forwarded-again"

\* The content length a response states: its Content-Length header when that
\* is a number, else the exact size of its body, else none (-1).
StatedContentLength(resp) ==
  CASE resp.headers["content-length"] = "5" -> 5
    [] resp.headers["content-length"] = "42" -> 42
    [] OTHER -> IF resp.size_hint.some THEN resp.size_hint.len ELSE -1

\* C13: the content-length field of the access-log record is the content
\* length stated by the response that is returned to the client: its
\* Content-Length header if that parses as a number, else the exact size of
\* its body, else a dash.
C13_ContentLengthOfFinalResponse ==
  (pc = "done" /\ log_enabled(cfg)) =>
     /\ Len(AccessRecords) = 1
     /\ AccessRecords[1].content_length = StatedContentLength(result.response)

ErrorRecords == SelectSeq(logger, LAMBDA r : r.is_error)

\* C14: a request answered 400 because of its URL (the sanitizer rejects it or
\* the rewritten URI cannot be built) or because it is a CONNECT without a
\* target authority has its access-log record and no error-log record; a
\* request answered 400 because its Host header fails parsing has an error-log
\* record as well.
C14_BadUrlLeavesErrorLogAlone ==
  pc = "done" =>
     /\ path \in {"san400", "connect400"} =>
           /\ log_enabled(cfg) => Len(AccessRecords) = 1
           /\ ErrorRecords = <<>>
     /\ (path = "host400" /\ error_log_enabled(cfg)) => Len(ErrorRecords) = 1

\* C15: when the forward entry point of a handler returned an error and
\* errorLogFilePath is set, the response returned is a 500 and the error log
\* holds the detail of that handler error, also when a response-modifying
\* entry point failed afterwards on the synthesized 500.
C15_ForwardErrorDetailIsLogged ==
  (pc = "done" /\ path = "error" /\ error_log_enabled(cfg)) =>
     /\ result.response.status = 500
     /\ \E i \in 1..Len(ErrorRecords) :
           ErrorRecords[i].msg = "Unexpected error while serving a request (forward)"

\* The failure site an error-log record of the pipeline names, as the exit of
\* the request that sent it.
FailureSiteOf(msg) ==
  CASE msg = "Host header sanitation error" -> {"host400"}
    [] msg = "Cannot determine server configuration" -> {"cfg500"}
    [] msg = "URL sanitation error" -> {"san400"}
    [] msg = "Error while upgrading WebSocket request" -> {"websocket500"}
    [] msg = "Unexpected error while serving a request (forward)" -> {"error"}
    [] msg = "Unexpected error while serving a request (post)" -> ChainPaths
    [] OTHER -> {}

PipelineErrorRecords == SelectSeq(PipelineRecords, LAMBDA r : r.is_error)

\* C16: at every moment of a request the pipeline has sent at most one
\* error-log record, and the record names the failure site of the path the
\* request took; with errorLogFilePath not set nothing, the detached tasks
\* included, sends an error-log record.
C16_AtMostOneErrorRecord ==
  /\ Len(PipelineErrorRecords) <= 1
  /\ \A i \in 1..Len(PipelineErrorRecords) :
        path \in FailureSiteOf(PipelineErrorRecords[i].msg)
  /\ "errorLogFilePath" \notin DOMAIN cfg => ErrorRecords = <<>>

C16_Witness ==
  /\ pc = "done"
  /\ path = "error"
  /\ collapsed
  /\ Len(post_calls) = 2
  /\ Len(PipelineErrorRecords) = 1

(***************************************************************************)
(* The log channel of start_server: async_channel::bounded(10000), its     *)
(* senders (log_combined, the error-log sends, ErrorLogger) and the        *)
(* logging loop that receives from it.                                     *)
(***************************************************************************)
LOG_CHANNEL_CAPACITY == 10000

\* A send that gives up when the channel is full.
channel_send_lossy(len) ==
  IF len < LOG_CHANNEL_CAPACITY
  THEN [len |-> len + 1, state |-> "sent"]
  ELSE [len |-> len, state |-> "dropped"]

\* Sender::send(msg).await polled on a channel that holds len records: the
\* record is enqueued, or the channel is full and the future stays pending.
channel_send(len) ==
  IF len < LOG_CHANNEL_CAPACITY
  THEN [len |-> len + 1, state |-> "sent"]
  ELSE [len |-> len, state |-> "suspended"]

\* A task calls logger.send(LogMessage).await.
producer_sends(p) ==
  /\ producer[p] \in {"idle", "sent"}
  /\ channel_len' = channel_send(channel_len).len
  /\ producer' = [producer EXCEPT ![p] = channel_send(channel_len).state]
  /\ UNCHANGED <<pipeline_vars, module_vars, shutdown_vars, listener_vars, sink_vars>>

\* A suspended send is polled again after a record was taken.
producer_resumes(p) ==
  /\ producer[p] = "suspended"
  /\ channel_send(channel_len).state = "sent"
  /\ channel_len' = channel_send(channel_len).len
  /\ producer' = [producer EXCEPT ![p] = "sent"]
  /\ UNCHANGED <<pipeline_vars, module_vars, shutdown_vars, listener_vars, sink_vars>>

\* The request whose pipeline is suspended in the send runs into its deadline:
\* the future is dropped with the record it was about to send.
producer_abandoned(p) ==
  /\ producer[p] = "suspended"
  /\ producer' = [producer EXCEPT ![p] = "idle"]
  /\ UNCHANGED <<pipeline_vars, module_vars, shutdown_vars, listener_vars, sink_vars, channel_len>>

\* Sizes in bytes, scaled: the capacity of the BufWriter of a log file
\* (131072 bytes) and the most that one write to a tokio File takes (2 MiB).
BufCapacity == 2
MaxFileWrite == 3
\* A record that fits the BufWriter, one that is as long as its capacity, and
\* one longer than a write to the file takes.
SmallRecord == BufCapacity - 1
RecordSizes == {SmallRecord, BufCapacity, MaxFileWrite + 1}
\* How many of the lines handed to the file reach it.
Reaches == 0..(BufCapacity + 1)

\* One turn of the logging loop: receive_log.recv().await returns a record of
\* `size` bytes, the loop picks the file by is_error and, when that file is
\* open, spawns the task that writes the record.
logging_loop(is_error, size) ==
  LET file == IF is_error THEN "error" ELSE "access" IN
  /\ channel_len > 0
  /\ channel_len' = channel_len - 1
  /\ IF log_file[file] = "open"
     THEN \E t \in WriteTasks :
            /\ write_task[t].state = "unused"
            /\ \A u \in WriteTasks : u < t => write_task[u].state # "unused"
            /\ write_task' = [write_task EXCEPT
                               ![t] = [state |-> "waiting", file |-> file, no |-> spawned + 1,
                                       size |-> size]]
            /\ spawned' = spawned + 1
     ELSE write_task' = write_task /\ spawned' = spawned
  /\ UNCHANGED <<pipeline_vars, module_vars, shutdown_vars, listener_vars, producer, log_file, holders, flush_pc,
                 buffer, disk, file_lines, file_op>>

\* SpecChannel: the channel between its senders and the logging loop, with
\* both log files failed to open so that every record received is discarded.
InitChannel ==
  /\ cfg = MkConfig(TRUE, TRUE, FALSE, FALSE, YamlNull)
  /\ NoRequestYet
  /\ modules = NoModules
  /\ LoggingAtRest
  /\ log_file = [f \in LogFiles |-> "none"]
  /\ ServingOneConnection

NextChannel ==
  \/ \E p \in Producers : producer_sends(p)
  \/ \E p \in Producers : producer_resumes(p)
  \/ \E p \in Producers : producer_abandoned(p)
  \/ \E is_error \in BOOLEAN : logging_loop(is_error, SmallRecord)

SpecChannel == InitChannel /\ [][NextChannel]_vars

\* What the channel does for a send, apart from how a suspended send ends:
\* it never holds more than 10,000 records; a send on a full channel does
\* not complete and does not drop the record but suspends its task, which
\* stays suspended while the channel is full; a send that completes has
\* enqueued its record; the logging loop can always take a record from a
\* channel that is not empty.
ChannelBackpressure ==
  /\ [](channel_len \in 0..LOG_CHANNEL_CAPACITY)
  /\ [](\A p \in Producers : producer[p] \in {"idle", "sent", "suspended"})
  /\ [](\A p \in Producers :
          (producer[p] = "suspended" /\ channel_len = LOG_CHANNEL_CAPACITY) =>
             ~ENABLED producer_resumes(p))
  /\ [](channel_len > 0 => ENABLED logging_loop(FALSE, SmallRecord))
  /\ [][\A p \in Producers :
          /\ (producer[p] # "suspended" /\ producer'[p] = "suspended") =>
                (channel_len = LOG_CHANNEL_CAPACITY /\ channel_len' = channel_len)
          /\ (producer[p] = "suspended" /\ producer'[p] = "sent") =>
                (channel_len < LOG_CHANNEL_CAPACITY /\ channel_len' = channel_len + 1)
          /\ (channel_len = LOG_CHANNEL_CAPACITY /\ producer'[p] # producer[p]) =>
                (producer[p] = "suspended" \/ producer'[p] = "suspended")
       ]_vars
  /\ [][channel_len' < channel_len => channel_len' = channel_len - 1]_vars

\* C17: the log channel never holds more than 10,000 records; a producer
\* that sends while the channel is full suspends until the logging loop has
\* taken a record, and its record is not dropped: the only way a suspended
\* send ends is by enqueuing the record.
C17_BoundedChannelBackpressure ==
  /\ ChannelBackpressure
  /\ [][\A p \in Producers :
          (producer[p] = "suspended" /\ producer'[p] # "suspended") =>
             (producer'[p] = "sent" /\ channel_len' = channel_len + 1)
       ]_vars

\* C17 as the code has it: the channel drops no record and a suspended send
\* ends by enqueuing the record, or it is abandoned: the deadline of the
\* request passes while the send is suspended, the send is dropped with the
\* pipeline, the channel is left as it is and the record is never sent.
C17_BackpressureUntilDeadline ==
  /\ ChannelBackpressure
  /\ [][\A p \in Producers :
          (producer[p] = "suspended" /\ producer'[p] # "suspended") =>
             \/ producer'[p] = "sent" /\ channel_len' = channel_len + 1
             \/ producer'[p] = "idle" /\ channel_len' = channel_len
       ]_vars

C17_Witness ==
  /\ channel_len = LOG_CHANNEL_CAPACITY - 1
  /\ producer[1] = "suspended"
  /\ producer[2] = "sent"

(***************************************************************************)
(* The log files: each is an Arc<Mutex<BufWriter<File>>>.  The write tasks *)
(* spawned by the logging loop and the periodic flush task lock it.        *)
(***************************************************************************)
FLUSH_TASK == 0
MaxBacklog == 4

\* A lock that is granted whoever holds it.
mutex_lock_granted_always(holding) == TRUE

\* Mutex::lock().await completes only while no guard of the mutex is alive.
mutex_lock_granted(holding) == holding = {}

\* A write task obtains the guard of its file.
write_task_locks(t) ==
  /\ write_task[t].state = "waiting"
  /\ mutex_lock_granted(holders[write_task[t].file])
  /\ holders' = [holders EXCEPT ![write_task[t].file] = @ \cup {t}]
  /\ write_task' = [write_task EXCEPT ![t].state = "writing"]
  /\ UNCHANGED <<pipeline_vars, module_vars, shutdown_vars, listener_vars, channel_vars, log_file, flush_pc,
                 buffer, disk, spawned, file_lines, file_op>>

\* if is_error { message = format!("[{}]: {}", formatted_time, message); }
\* message.push('\n'): the line written for the no-th record spawned, as the
\* write hands it to the BufWriter.
log_line(no, is_error, size) ==
  [no |-> no, is_error |-> is_error, time |-> is_error, newline |-> TRUE, size |-> size,
   at |-> "buffer", cut |-> FALSE]

\* Where a line is: in the BufWriter; in the tokio File, whose write runs on
\* the blocking pool; in the file; nowhere.
IsBuffered(line) == line.at = "buffer"
IsInFlight(line) == line.at = "inflight"
IsInFile(line) == line.at = "disk"
CountBuffered(lines) == Len(SelectSeq(lines, IsBuffered))
CountInFlight(lines) == Len(SelectSeq(lines, IsInFlight))
CountInFile(lines) == Len(SelectSeq(lines, IsInFile))
RECURSIVE BufferedBytes(_)
BufferedBytes(lines) ==
  IF lines = <<>> THEN 0
  ELSE (IF IsBuffered(Head(lines)) THEN Head(lines).size ELSE 0) + BufferedBytes(Tail(lines))

\* File::poll_write of a line: the File copies what one write takes and
\* returns; a line longer than that is cut, its end and its newline are
\* never written.
file_poll_write(line) ==
  [line EXCEPT !.at = "inflight", !.cut = line.size > MaxFileWrite,
               !.newline = line.size <= MaxFileWrite]

\* BufWriter::flush_buf with a File that accepts: the File copies what the
\* BufWriter holds, which is less than one write takes, and the BufWriter is
\* empty.
flush_buf(lines) ==
  [i \in 1..Len(lines) |-> IF IsBuffered(lines[i]) THEN file_poll_write(lines[i]) ELSE lines[i]]

\* The write on the blocking pool ends: the file has the first `reach` of the
\* lines in flight and, when `cut`, a part of the next; the others are lost.
write_to(lines, reach, cut) ==
  LET first == Len(lines) - CountBuffered(lines) - CountInFlight(lines) IN
  [i \in 1..Len(lines) |->
     IF ~IsInFlight(lines[i]) THEN lines[i]
     ELSE IF i - first <= reach THEN [lines[i] EXCEPT !.at = "disk"]
     ELSE IF i - first = reach + 1 /\ cut
     THEN [lines[i] EXCEPT !.at = "disk", !.cut = TRUE, !.newline = FALSE]
     ELSE [lines[i] EXCEPT !.at = "lost"]]

\* The outcomes of a write of n lines to the file: all of them, or fewer.
FileTakes(n, reach, cut) == reach <= n /\ (cut => reach < n)

\* The blocking pool ends the write of a File.  Its result stays in the File
\* until the next poll_write or poll_flush collects it.
file_write_completes(file, reach, cut) ==
  LET lines == write_to(file_lines[file], reach, cut) IN
  /\ file_op[file] = "writing"
  /\ FileTakes(CountInFlight(file_lines[file]), reach, cut)
  /\ file_op' = [file_op EXCEPT ![file] =
                   IF reach = CountInFlight(file_lines[file]) THEN "idle" ELSE "failed"]
  /\ file_lines' = [file_lines EXCEPT ![file] = lines]
  /\ disk' = [disk EXCEPT ![file] = CountInFile(lines)]
  /\ UNCHANGED <<pipeline_vars, module_vars, shutdown_vars, listener_vars, channel_vars, log_file, write_task,
                 holders, flush_pc, buffer, spawned>>

\* BufWriter::poll_write: the line does not fit next to what is held, and a
\* line as long as the capacity or longer is not kept but given to the File.
Overflows(lines, line) == BufferedBytes(lines) + line.size > BufCapacity
Direct(line) == line.size >= BufCapacity

\* The line of a write task, the file it goes to and what BufWriter::write
\* makes of the lines of the file when the File is idle: the held lines are
\* given to the File when the line does not fit; the line is kept, or given
\* to the File when nothing is held; with lines held, a line for the File
\* has to wait for the write of the held ones.
TaskLine(t) == log_line(write_task[t].no, write_task[t].file = "error", write_task[t].size)
buf_writer_write(lines, line) ==
  IF ~Overflows(lines, line) /\ ~Direct(line) THEN Append(lines, line)
  ELSE IF ~Direct(line) THEN Append(flush_buf(lines), line)
  ELSE IF CountBuffered(lines) = 0 THEN Append(lines, file_poll_write(line))
  ELSE flush_buf(lines)

\* locked_file.write(..).await of a write task.  Nothing of the File is
\* needed for a line that fits: it is kept.  Else the write waits for the
\* File to end the write it has under way; an error of that write is
\* returned, printed, and the record is dropped with the BufWriter as it
\* was; an idle File accepts what it is given and the write goes on.  The
\* task ends and drops its guard when the write returns; it goes on holding
\* it while its line waits for the write of the held lines.
write_task_writes(t) ==
  LET file == write_task[t].file
      line == TaskLine(t)
      needs_file == Overflows(file_lines[file], line) \/ Direct(line)
      failed == needs_file /\ file_op[file] = "failed"
      waits == ~failed /\ Direct(line) /\ CountBuffered(file_lines[file]) > 0
      lines == IF failed THEN file_lines[file] ELSE buf_writer_write(file_lines[file], line)
  IN
  /\ write_task[t].state = "writing"
  /\ needs_file => file_op[file] # "writing"
  /\ file_op' = [file_op EXCEPT ![file] = IF ~needs_file THEN @ ELSE IF failed THEN "idle" ELSE "writing"]
  /\ file_lines' = [file_lines EXCEPT ![file] = lines]
  /\ buffer' = [buffer EXCEPT ![file] = CountBuffered(lines)]
  /\ holders' = [holders EXCEPT ![file] = IF waits THEN @ ELSE @ \ {t}]
  /\ write_task' = [write_task EXCEPT ![t] = IF waits THEN [@ EXCEPT !.state = "handing"] ELSE NoWriteTask]
  /\ UNCHANGED <<pipeline_vars, module_vars, shutdown_vars, listener_vars, channel_vars, log_file, flush_pc,
                 disk, spawned>>

\* The rest of such a write: the write of the held lines has ended; on its
\* error the write returns it and the record is dropped, else the File
\* accepts the line; the task ends and drops its guard.
write_task_poll_write(t) ==
  LET file == write_task[t].file
      failed == file_op[file] = "failed"
      lines == IF failed THEN file_lines[file]
               ELSE Append(file_lines[file], file_poll_write(TaskLine(t)))
  IN
  /\ write_task[t].state = "handing"
  /\ file_op[file] # "writing"
  /\ file_op' = [file_op EXCEPT ![file] = IF failed THEN "idle" ELSE "writing"]
  /\ file_lines' = [file_lines EXCEPT ![file] = lines]
  /\ holders' = [holders EXCEPT ![file] = @ \ {t}]
  /\ write_task' = [write_task EXCEPT ![t] = NoWriteTask]
  /\ UNCHANGED <<pipeline_vars, module_vars, shutdown_vars, listener_vars, channel_vars, log_file, flush_pc,
                 buffer, disk, spawned>>

\* Where the flush task goes after it is done with `file` ("tick" before the
\* first one): the next file that is open, else the next tick.
flush_next(after) ==
  IF after = "tick" /\ log_file["access"] = "open" THEN "lock_access"
  ELSE IF after \in {"tick", "access"} /\ log_file["error"] = "open" THEN "lock_error"
  ELSE "tick"

\* interval.tick().await returns.
interval_tick ==
  /\ flush_pc = "tick"
  /\ flush_pc' = flush_next("tick")
  /\ UNCHANGED <<pipeline_vars, module_vars, listener_vars, channel_vars, log_file, write_task, holders,
                 buffer, disk, spawned, file_lines, file_op>>

\* A tick of the flush task, at whatever time.
flush_tick == interval_tick /\ UNCHANGED shutdown_vars

\* The flush task obtains the guard of a file.
flush_locks(file) ==
  /\ flush_pc = (IF file = "access" THEN "lock_access" ELSE "lock_error")
  /\ mutex_lock_granted(holders[file])
  /\ holders' = [holders EXCEPT ![file] = @ \cup {FLUSH_TASK}]
  /\ flush_pc' = (IF file = "access" THEN "flush_access" ELSE "flush_error")
  /\ UNCHANGED <<pipeline_vars, module_vars, shutdown_vars, listener_vars, channel_vars, log_file, write_task,
                 buffer, disk, spawned, file_lines, file_op>>

\* locked_file.flush().await, first part: the flush waits for the File to
\* end the write it has under way.  On an error of that write the flush
\* returns it with the BufWriter as it was (the error is ignored); with
\* nothing held the flush returns; else the File accepts what is held and
\* the flush goes on to wait for that write.  The guard is dropped when the
\* flush returns, at the end of the `if let` block.
flush_flushes(file) ==
  LET failed == file_op[file] = "failed"
      returns == failed \/ buffer[file] = 0
      lines == IF returns THEN file_lines[file] ELSE flush_buf(file_lines[file])
  IN
  /\ flush_pc = (IF file = "access" THEN "flush_access" ELSE "flush_error")
  /\ file_op[file] # "writing"
  /\ file_op' = [file_op EXCEPT ![file] = IF returns THEN "idle" ELSE "writing"]
  /\ file_lines' = [file_lines EXCEPT ![file] = lines]
  /\ buffer' = [buffer EXCEPT ![file] = CountBuffered(lines)]
  /\ holders' = [holders EXCEPT ![file] = IF returns THEN @ \ {FLUSH_TASK} ELSE @]
  /\ flush_pc' = IF returns THEN flush_next(file)
                 ELSE IF file = "access" THEN "sync_access" ELSE "sync_error"
  /\ UNCHANGED <<pipeline_vars, module_vars, shutdown_vars, listener_vars, channel_vars, log_file, write_task,
                 disk, spawned>>

\* The rest of the flush, File::poll_flush: the write of what the BufWriter
\* held has ended, its result is returned and ignored, the guard is dropped.
flush_poll_flush(file) ==
  /\ flush_pc = (IF file = "access" THEN "sync_access" ELSE "sync_error")
  /\ file_op[file] # "writing"
  /\ file_op' = [file_op EXCEPT ![file] = "idle"]
  /\ holders' = [holders EXCEPT ![file] = @ \ {FLUSH_TASK}]
  /\ flush_pc' = flush_next(file)
  /\ UNCHANGED <<pipeline_vars, module_vars, shutdown_vars, listener_vars, channel_vars, log_file, write_task,
                 buffer, disk, spawned, file_lines>>

LinesOf(f) == {file_lines[f][i] : i \in 1..Len(file_lines[f])}
FreeWriteTask == \E t \in WriteTasks : write_task[t].state = "unused"
LiveWriteTasks == {t \in WriteTasks : write_task[t].state # "unused"}

\* The write of a File ends with a file that takes all it is given.
file_write_completes_whole(file) ==
  \E reach \in Reaches : file_write_completes(file, reach, FALSE) /\ file_op'[file] = "idle"

SinkTaskStep ==
  \/ \E t \in WriteTasks : write_task_locks(t)
  \/ \E t \in WriteTasks : write_task_writes(t)
  \/ \E t \in WriteTasks : write_task_poll_write(t)
  \/ \E file \in LogFiles : flush_locks(file)
  \/ \E file \in LogFiles : flush_flushes(file)
  \/ \E file \in LogFiles : flush_poll_flush(file)

\* SpecLogFiles: the logging loop, the write tasks and the flush task, with
\* LogFilesBacklog records in the channel and every combination of open files.
LogFilesBacklog == 3
InitLogFiles ==
  /\ cfg = MkConfig(TRUE, TRUE, FALSE, FALSE, YamlNull)
  /\ NoRequestYet
  /\ modules = NoModules
  /\ channel_len = LogFilesBacklog
  /\ producer = [p \in Producers |-> "sent"]
  /\ write_task = [t \in WriteTasks |-> NoWriteTask]
  /\ spawned = 0
  /\ file_lines = [f \in LogFiles |-> <<>>]
  /\ file_op = [f \in LogFiles |-> "idle"]
  /\ holders = [f \in LogFiles |-> {}]
  /\ flush_pc = "tick"
  /\ buffer = [f \in LogFiles |-> 0]
  /\ disk = [f \in LogFiles |-> 0]
  /\ now = 0
  /\ next_tick = 0
  /\ start_pc = "event_loop"
  /\ wake_at = 0
  /\ log_file \in [LogFiles -> {"open", "none"}]
  /\ ServingOneConnection

\* The sink with records of the given sizes and every outcome of the file.
SinkStep(sizes) ==
  \/ \E is_error \in BOOLEAN, size \in sizes : logging_loop(is_error, size)
  \/ \E t \in WriteTasks : write_task_locks(t)
  \/ \E t \in WriteTasks : write_task_writes(t)
  \/ \E t \in WriteTasks : write_task_poll_write(t)
  \/ flush_tick
  \/ \E file \in LogFiles : flush_locks(file)
  \/ \E file \in LogFiles : flush_flushes(file)
  \/ \E file \in LogFiles : flush_poll_flush(file)
  \/ \E file \in LogFiles, reach \in Reaches, cut \in BOOLEAN : file_write_completes(file, reach, cut)

\* The records of SpecLogFiles are those that one write to the File takes
\* whole: short ones, and ones as long as the BufWriter that go to the File
\* directly.
NextLogFiles == SinkStep({SmallRecord, BufCapacity})

SpecLogFiles == InitLogFiles /\ [][NextLogFiles]_vars

\* SpecSink: the same sink with SinkBacklog records of every length.
SinkBacklog == 2
InitSink ==
  /\ cfg = MkConfig(TRUE, TRUE, FALSE, FALSE, YamlNull)
  /\ NoRequestYet
  /\ modules = NoModules
  /\ channel_len = SinkBacklog
  /\ producer = [p \in Producers |-> "sent"]
  /\ write_task = [t \in WriteTasks |-> NoWriteTask]
  /\ spawned = 0
  /\ file_lines = [f \in LogFiles |-> <<>>]
  /\ file_op = [f \in LogFiles |-> "idle"]
  /\ holders = [f \in LogFiles |-> {}]
  /\ flush_pc = "tick"
  /\ buffer = [f \in LogFiles |-> 0]
  /\ disk = [f \in LogFiles |-> 0]
  /\ now = 0
  /\ next_tick = 0
  /\ start_pc = "event_loop"
  /\ wake_at = 0
  /\ log_file \in [LogFiles -> {"open", "none"}]
  /\ ServingOneConnection

NextSink == SinkStep(RecordSizes)

SpecSink == InitSink /\ [][NextSink]_vars

SinkTasks == WriteTasks \cup {FLUSH_TASK}
Writing(t, file) == write_task[t].state \in {"writing", "handing"} /\ write_task[t].file = file
Flushing(file) ==
  flush_pc \in (IF file = "access" THEN {"flush_access", "sync_access"} ELSE {"flush_error", "sync_error"})
\* What the holder of the lock of a file does next.
HolderStep(t, file) ==
  IF t = FLUSH_TASK THEN flush_flushes(file) \/ flush_poll_flush(file)
  ELSE write_task_writes(t) \/ write_task_poll_write(t)
WaitingForLock ==
  \/ \E t \in WriteTasks : write_task[t].state = "waiting"
  \/ flush_pc \in {"lock_access", "lock_error"}

\* C18: at most one task holds the lock of a log file, and a task writes or
\* flushes a file only while it is the holder; no task holds the lock of the
\* access file and the lock of the error file together; whenever a task waits
\* for a lock, some write task or the flush task can take a step or the
\* write of a File is under way, and the holder of a lock is never itself
\* waiting for a lock: it can take its step, or it waits for the write of
\* its File, which can end.
C18_PerFileLock ==
  /\ \A f \in LogFiles : Cardinality(holders[f]) <= 1
  /\ \A f \in LogFiles : holders[f] \subseteq SinkTasks
  /\ \A f \in LogFiles :
        /\ \A t \in WriteTasks : Writing(t, f) <=> t \in holders[f]
        /\ Flushing(f) <=> FLUSH_TASK \in holders[f]
  /\ holders["access"] \cap holders["error"] = {}
  /\ WaitingForLock => (ENABLED SinkTaskStep \/ \E f \in LogFiles : file_op[f] = "writing")
  /\ \A f \in LogFiles : \A t \in holders[f] : file_op[f] = "writing" \/ ENABLED HolderStep(t, f)
  /\ \A f \in LogFiles : file_op[f] = "writing" => ENABLED file_write_completes_whole(f)

C18_Witness ==
  /\ holders["access"] = {FLUSH_TASK}
  /\ \E t \in WriteTasks : write_task[t].state = "waiting" /\ write_task[t].file = "access"
  /\ \E t \in WriteTasks : Writing(t, "error")

(***************************************************************************)
(* server_event_loop: the listeners it binds and its accept loop, and      *)
(* accept_connection with the connection tasks it spawns.                  *)
(***************************************************************************)
FlagInputs == {"absent", "true", "false"}
MkServerConfig(secure, disable, http2) ==
  [k \in (IF secure # "absent" THEN {"secure"} ELSE {})
         \cup (IF disable # "absent" THEN {"disableNonEncryptedServer"} ELSE {})
         \cup (IF http2 # "absent" THEN {"enableHTTP2"} ELSE {}) |->
     CASE k = "secure" -> YamlBoolean(secure = "true")
       [] k = "disableNonEncryptedServer" -> YamlBoolean(disable = "true")
       [] k = "enableHTTP2" -> YamlBoolean(http2 = "true")]
ServerConfigs ==
  {MkServerConfig(s, d, h) : s \in FlagInputs, d \in FlagInputs, h \in FlagInputs}

\* tls_enabled and non_tls_disabled as server_event_loop reads them.
listener_flags(global) ==
  LET secure == as_bool(YamlIndex(global, "secure"))
      disable == as_bool(YamlIndex(global, "disableNonEncryptedServer"))
  IN [tls_enabled |-> secure.some /\ secure.value,
      non_tls_disabled |-> secure.some /\ disable.some /\ disable.value]

server_fails(text) ==
  /\ server_log' = Append(server_log, text)
  /\ channel_len' = channel_send(channel_len).len
  /\ server_result' = text
  /\ server_pc' = "failed"
  /\ listener' = FALSE
  /\ listener_tls' = FALSE
  /\ startup' = startup

\* The listeners are bound as the flags say; a bind that fails is fatal.
server_binds(bind_ok, bind_tls_ok) ==
  LET flags == listener_flags(cfg)
      versions == tls_protocol_versions(cfg)
      addr == listen_addr(cfg)
      addr_tls == listen_addr_tls(cfg)
      \* the second bind of an address this process already listens on fails
      addr_in_use == ~flags.non_tls_disabled /\ addr.addr = addr_tls.addr
  IN
  /\ server_pc = "init"
  /\ IF ~versions.ok
     THEN server_fails(versions.error)
     ELSE IF ~addr.ok
     THEN server_fails(addr.error)
     ELSE IF ~addr_tls.ok
     THEN server_fails(addr_tls.error)
     ELSE IF ~flags.non_tls_disabled /\ ~bind_ok
     THEN server_fails("Cannot listen to HTTP port")
     ELSE IF flags.tls_enabled /\ (~bind_tls_ok \/ addr_in_use)
     THEN server_fails("Cannot listen to HTTPS port")
     ELSE /\ listener' = ~flags.non_tls_disabled
          /\ listener_tls' = flags.tls_enabled
          /\ startup' = server_startup(cfg)
          /\ server_pc' = "loop"
          /\ UNCHANGED <<server_log, server_result, channel_len>>
  /\ UNCHANGED <<pipeline_vars, module_vars, shutdown_vars, producer, sink_vars, conn, accept_failures>>

\* The accept loop finds no listener.
no_server_is_listening ==
  /\ server_pc = "loop"
  /\ ~listener /\ ~listener_tls
  /\ server_fails("No server is listening")
  /\ UNCHANGED <<pipeline_vars, module_vars, shutdown_vars, producer, sink_vars, conn, accept_failures>>

Bound(tls) == IF tls THEN listener_tls ELSE listener

\* accept() of a listener returns an error, which ends the accept loop.
accept_fails_fatal(tls) ==
  /\ server_pc = "loop"
  /\ Bound(tls)
  /\ accept_failures < MaxAcceptFailures
  /\ accept_failures' = accept_failures + 1
  /\ server_fails("Cannot accept a connection")
  /\ UNCHANGED <<pipeline_vars, module_vars, shutdown_vars, producer, sink_vars, conn>>

\* The connections whose task the accept loop would wait for, were the
\* handshake and the serving awaited in accept_connection.
awaited_connections_inline(conns) ==
  {c \in DOMAIN conns : conns[c].state \in {"handshake", "serving"}}

\* tokio::task::spawn(async move { .. }) in both branches of
\* accept_connection: the handshake and the serving of a connection run in a
\* task of their own, and the accept loop waits for none of them.
awaited_connections(conns) == {}

\* logger.send(..).await in the accept loop: the record is enqueued and the
\* loop turns, or the channel is full and the loop is suspended in the send.
accept_loop_sends(text) ==
  /\ server_log' = Append(server_log, text)
  /\ channel_len' = channel_send(channel_len).len
  /\ server_pc' = IF channel_send(channel_len).state = "sent" THEN "loop" ELSE "sending"

\* The send of the accept loop is polled again after a record was taken.
accept_loop_resumes ==
  /\ server_pc = "sending"
  /\ channel_send(channel_len).state = "sent"
  /\ channel_len' = channel_send(channel_len).len
  /\ server_pc' = "loop"
  /\ UNCHANGED <<pipeline_vars, module_vars, shutdown_vars, producer, sink_vars, conn,
                 accept_failures, listener, listener_tls, server_result, server_log, startup>>

\* accept() of a listener returns an error: it is logged and the loop turns.
accept_fails(tls) ==
  /\ server_pc = "loop"
  /\ awaited_connections(conn) = {}
  /\ Bound(tls)
  /\ accept_failures < MaxAcceptFailures
  /\ accept_failures' = accept_failures + 1
  /\ accept_loop_sends("Cannot accept a connection")
  /\ UNCHANGED <<pipeline_vars, module_vars, shutdown_vars, producer, sink_vars, conn,
                 listener, listener_tls, server_result, startup>>

NextConnection == CHOOSE c \in Connections :
  /\ conn[c].state = "none"
  /\ \A d \in Connections : d < c => conn[d].state # "none"

\* accept() returns a stream and accept_connection runs: it gives the stream
\* up when TCP_NODELAY or the local address fails, else it spawns the task
\* of the connection.
accept_connection(tls, nodelay_ok, local_addr_ok) ==
  /\ server_pc = "loop"
  /\ awaited_connections(conn) = {}
  /\ Bound(tls)
  /\ \E c \in Connections : conn[c].state = "none"
  /\ IF ~nodelay_ok
     THEN /\ conn' = [conn EXCEPT ![NextConnection] = [state |-> "rejected", tls |-> tls, http2 |-> FALSE, sending |-> FALSE]]
          /\ accept_loop_sends("Cannot disable Nagle algorithm")
     ELSE IF ~local_addr_ok
     THEN /\ conn' = [conn EXCEPT ![NextConnection] = [state |-> "rejected", tls |-> tls, http2 |-> FALSE, sending |-> FALSE]]
          /\ accept_loop_sends("Cannot obtain local address of the connection")
     ELSE /\ conn' = [conn EXCEPT ![NextConnection] =
                        IF tls THEN [state |-> "handshake", tls |-> TRUE, http2 |-> FALSE,
                                     sending |-> FALSE]
                        ELSE ServedConnection(FALSE)]
          /\ UNCHANGED <<server_log, channel_len, server_pc>>
  /\ UNCHANGED <<pipeline_vars, module_vars, shutdown_vars, producer, sink_vars, accept_failures,
                 listener, listener_tls, server_result, startup>>

\* logger.send(..).await in the task of connection c, whose handshake or
\* serving has ended as `state`: the record is enqueued and the task ends, or
\* the channel is full and the task is suspended in the send.
connection_task_sends(c, state, text) ==
  /\ conn' = [conn EXCEPT ![c].state = state,
                          ![c].sending = (channel_send(channel_len).state = "suspended")]
  /\ channel_len' = channel_send(channel_len).len
  /\ server_log' = Append(server_log, text)

\* The send of a connection task is polled again after a record was taken.
connection_task_resumes(c) ==
  /\ conn[c].sending
  /\ channel_send(channel_len).state = "sent"
  /\ channel_len' = channel_send(channel_len).len
  /\ conn' = [conn EXCEPT ![c].sending = FALSE]
  /\ UNCHANGED <<pipeline_vars, module_vars, shutdown_vars, producer, sink_vars, accept_failures,
                 server_pc, listener, listener_tls, server_result, server_log, startup>>

\* tls_acceptor.accept(stream).await in the task of an encrypted connection.
tls_handshake(c, ok) ==
  /\ conn[c].state = "handshake"
  /\ IF ok
     THEN /\ conn' = [conn EXCEPT ![c] = ServedConnection(TRUE)]
          /\ UNCHANGED <<server_log, channel_len>>
     ELSE connection_task_sends(c, "handshake_failed", "Error during TLS handshake")
  /\ UNCHANGED <<pipeline_vars, module_vars, shutdown_vars, producer, sink_vars, accept_failures, server_pc,
                 listener, listener_tls, server_result, startup>>

ServeOutcomes == {"closed", "io_error", "request_timeout"}

\* serve_connection_with_upgrades(...).await returns in the task of a
\* connection: the peer closed it, or it failed, a request_handler that
\* returned the deadline error included.
connection_ends(c, outcome) ==
  /\ conn[c].state = "serving"
  /\ IF outcome = "closed"
     THEN /\ conn' = [conn EXCEPT ![c].state = "closed"]
          /\ UNCHANGED <<server_log, channel_len>>
     ELSE connection_task_sends(c, "serve_failed",
                                IF conn[c].tls THEN "Error serving HTTPS connection"
                                ELSE "Error serving HTTP connection")
  /\ UNCHANGED <<pipeline_vars, module_vars, shutdown_vars, producer, sink_vars, accept_failures, server_pc,
                 listener, listener_tls, server_result, startup>>

\* SpecServer: server_event_loop from its start, under every combination of
\* `secure` and `disableNonEncryptedServer`.
InitServer ==
  /\ cfg \in ServerConfigs
  /\ NoRequestYet
  /\ modules = NoModules
  /\ LoggingAtRest
  /\ log_file = [f \in LogFiles |-> "open"]
  /\ server_pc = "init"
  /\ listener = FALSE
  /\ listener_tls = FALSE
  /\ server_result = ServerRunning
  /\ server_log = <<>>
  /\ conn = [c \in Connections |-> NoConnection]
  /\ accept_failures = 0
  /\ startup = NotStarted

NextServer ==
  \/ \E bind_ok \in BOOLEAN, bind_tls_ok \in BOOLEAN : server_binds(bind_ok, bind_tls_ok)
  \/ no_server_is_listening
  \/ \E tls \in BOOLEAN : accept_fails(tls)
  \/ \E tls \in BOOLEAN, nodelay_ok \in BOOLEAN, local_addr_ok \in BOOLEAN :
       accept_connection(tls, nodelay_ok, local_addr_ok)
  \/ \E c \in Connections, ok \in BOOLEAN : tls_handshake(c, ok)
  \/ \E c \in Connections, outcome \in ServeOutcomes : connection_ends(c, outcome)

SpecServer == InitServer /\ [][NextServer]_vars

\* SpecTls: server_event_loop under every pair of tlsMinVersion and
\* tlsMaxVersion (absent, TLSv1.2, TLSv1.3, or a version that is not known),
\* with the plaintext listener disabled and `secure` true or false.
VersionInputs == {"absent", "TLSv1.1", "TLSv1.2", "TLSv1.3"}
MkTlsConfig(secure, min, max) ==
  [k \in {"secure", "disableNonEncryptedServer"}
         \cup (IF min # "absent" THEN {"tlsMinVersion"} ELSE {})
         \cup (IF max # "absent" THEN {"tlsMaxVersion"} ELSE {}) |->
     CASE k = "secure" -> YamlBoolean(secure)
       [] k = "disableNonEncryptedServer" -> YamlBoolean(TRUE)
       [] k = "tlsMinVersion" -> YamlText(min)
       [] k = "tlsMaxVersion" -> YamlText(max)]
TlsConfigs ==
  {MkTlsConfig(s, min, max) : s \in BOOLEAN, min \in VersionInputs, max \in VersionInputs}
ServerNotStarted ==
  /\ NoRequestYet
  /\ modules = NoModules
  /\ LoggingAtRest
  /\ log_file = [f \in LogFiles |-> "open"]
  /\ server_pc = "init"
  /\ listener = FALSE
  /\ listener_tls = FALSE
  /\ server_result = ServerRunning
  /\ server_log = <<>>
  /\ conn = [c \in Connections |-> NoConnection]
  /\ accept_failures = 0
  /\ startup = NotStarted
InitTls == cfg \in TlsConfigs /\ ServerNotStarted
SpecTls == InitTls /\ [][NextServer]_vars

\* SpecPorts: server_event_loop under every pair of `port` and `sport` values
\* (absent, an integer, an integer that is no port, an address text, a text
\* that is no address) and every pair of listener flags.
PortInputs ==
  {YamlBadValue, YamlInteger(8080), YamlInteger(70000), YamlText("[::]:8080"), YamlText("http")}
SportInputs ==
  {YamlBadValue, YamlInteger(8443), YamlInteger(70000), YamlText("127.0.0.1:8443")}
MkPortConfig(secure, disable, port, sport) ==
  [k \in {"secure", "disableNonEncryptedServer"}
         \cup (IF port # YamlBadValue THEN {"port"} ELSE {})
         \cup (IF sport # YamlBadValue THEN {"sport"} ELSE {}) |->
     CASE k = "secure" -> YamlBoolean(secure)
       [] k = "disableNonEncryptedServer" -> YamlBoolean(disable)
       [] k = "port" -> port
       [] k = "sport" -> sport]
PortConfigs ==
  {MkPortConfig(s, d, port, sport) :
     s \in BOOLEAN, d \in BOOLEAN, port \in PortInputs, sport \in SportInputs}
InitPorts == cfg \in PortConfigs /\ ServerNotStarted
SpecPorts == InitPorts /\ [][NextServer]_vars

FlagIsTrue(key) == key \in DOMAIN cfg /\ cfg[key] = YamlBoolean(TRUE)
Accepted == {c \in Connections : conn[c].state # "none"}

\* C19: once server_event_loop is past binding, the plaintext listener is
\* bound exactly when disableNonEncryptedServer is not true and the encrypted
\* listener exactly when secure is true, whether each flag is present or
\* absent; with disableNonEncryptedServer true and secure not true no
\* listener is bound, no connection is ever accepted and the server ends with
\* the error "No server is listening".
C19_ListenersFollowFlags ==
  /\ server_pc = "loop" =>
        /\ listener <=> ~FlagIsTrue("disableNonEncryptedServer")
        /\ listener_tls <=> FlagIsTrue("secure")
  /\ (FlagIsTrue("disableNonEncryptedServer") /\ ~FlagIsTrue("secure")) =>
        /\ ~listener /\ ~listener_tls
        /\ Accepted = {}
        /\ server_pc = "failed" => server_result = "No server is listening"

ConnectionErrorText(c) ==
  CASE conn[c].state = "handshake_failed" -> {"Error during TLS handshake"}
    [] conn[c].state = "serve_failed" ->
         {IF conn[c].tls THEN "Error serving HTTPS connection"
          ELSE "Error serving HTTP connection"}
    [] conn[c].state = "rejected" ->
         {"Cannot disable Nagle algorithm", "Cannot obtain local address of the connection"}
    [] OTHER -> {}

LastLogged == IF server_log = <<>> THEN "" ELSE server_log[Len(server_log)]

\* C20: while a listener is bound, no step ends the accept loop: the
\* listeners stay bound and server_event_loop does not return.  A failed
\* accept, a connection given up for TCP_NODELAY or its local address, a
\* failed TLS handshake and a failed serve (a request timeout included) each
\* send one error record, and after any of them the loop can still accept a
\* connection on every bound listener.
C20_AcceptLoopSurvivesConnectionErrors ==
  /\ [][(server_pc = "loop" /\ (listener \/ listener_tls)) =>
          /\ server_pc' = "loop"
          /\ listener' = listener
          /\ listener_tls' = listener_tls
          /\ server_result' = ServerRunning
          /\ accept_failures' # accept_failures =>
                server_log' = Append(server_log, "Cannot accept a connection")
          /\ \A c \in Connections :
                (conn'[c].state # conn[c].state /\ ConnectionErrorText(c)' # {}) =>
                   /\ Len(server_log') = Len(server_log) + 1
                   /\ LastLogged' \in ConnectionErrorText(c)'
       ]_vars
  /\ [](\A tls \in BOOLEAN :
          (server_pc = "loop" /\ Bound(tls) /\ Accepted # Connections) =>
             ENABLED accept_connection(tls, TRUE, TRUE))

C20_Witness ==
  /\ server_pc = "loop"
  /\ accept_failures = 1
  /\ conn[1].state \in {"handshake_failed", "serve_failed", "rejected"}
  /\ conn[2].state = "serving"
  /\ Len(server_log) = 2

Serving == {c \in Connections : conn[c].state \in {"serving", "closed", "serve_failed"}}

\* C21: once server_event_loop is past binding the ALPN list is h2, http/1.1,
\* http/1.0 when enableHTTP2 is true and http/1.1, http/1.0 when it is false
\* or absent; every connection that is served allows HTTP/2 exactly when
\* enableHTTP2 is true, which is exactly when h2 is advertised.
C21_Http2OnlyWhenEnabled ==
  server_pc = "loop" =>
     /\ startup.alpn_protocols =
          (IF FlagIsTrue("enableHTTP2") THEN <<"h2", "http/1.1", "http/1.0">>
           ELSE <<"http/1.1", "http/1.0">>)
     /\ \A c \in Serving :
          /\ conn[c].http2 <=> FlagIsTrue("enableHTTP2")
          /\ conn[c].http2 <=>
               \E i \in 1..Len(startup.alpn_protocols) : startup.alpn_protocols[i] = "h2"

C21_Witness ==
  /\ \E c \in Serving : conn[c].tls /\ conn[c].http2
  /\ \E c \in Serving : ~conn[c].tls /\ conn[c].http2
  /\ startup.alpn_protocols[1] = "h2"

VersionRank(text) == IF text = "TLSv1.2" THEN 2 ELSE IF text = "TLSv1.3" THEN 3 ELSE 0
ConfiguredVersion(key, default) == IF key \in DOMAIN cfg THEN cfg[key].text ELSE default
MinVersion == ConfiguredVersion("tlsMinVersion", "TLSv1.2")
MaxVersion == ConfiguredVersion("tlsMaxVersion", "TLSv1.3")
VersionErrors ==
  {"The maximum TLS version is older than the minimum TLS version",
   "Invalid maximum TLS version", "Invalid minimum TLS version"}

\* C22: when tlsMinVersion and tlsMaxVersion (TLSv1.2 and TLSv1.3 when
\* absent) are known versions with minimum not above maximum, the TLS context
\* allows exactly the versions between them and no version error is raised;
\* otherwise server_event_loop ends with a version error, no listener is bound
\* and no connection is accepted.
C22_TlsVersionGating ==
  server_pc # "init" =>
     IF /\ VersionRank(MinVersion) # 0
        /\ VersionRank(MaxVersion) # 0
        /\ VersionRank(MinVersion) <= VersionRank(MaxVersion)
     THEN /\ server_result \notin VersionErrors
          /\ server_pc = "loop" =>
               startup.tls_versions =
                 {v \in {"TLSv1.2", "TLSv1.3"} :
                    /\ VersionRank(MinVersion) <= VersionRank(v)
                    /\ VersionRank(v) <= VersionRank(MaxVersion)}
     ELSE /\ server_pc = "failed"
          /\ server_result \in VersionErrors
          /\ ~listener /\ ~listener_tls
          /\ Accepted = {}

C22_Witness ==
  /\ server_pc = "loop"
  /\ MinVersion = "TLSv1.3"
  /\ "tlsMaxVersion" \notin DOMAIN cfg
  /\ startup.tls_versions = {"TLSv1.3"}
  /\ \E c \in Serving : conn[c].tls

\* C23: the encrypted listener is bound to [::]:sport when `sport` is
\* configured as a port number and to [::]:443 when it is absent, whatever
\* `port` is.
C23_TlsAddressFromSportOnly ==
  (server_pc = "loop" /\ listener_tls) =>
     /\ ("sport" \in DOMAIN cfg /\ cfg["sport"].kind = "Integer")
          => startup.addr_tls = SocketAddr("::", cfg["sport"].v)
     /\ "sport" \notin DOMAIN cfg => startup.addr_tls = SocketAddr("::", 443)

(***************************************************************************)
(* start_server: server_event_loop fails, start_server sleeps 100 ms and   *)
(* returns, while the log task opens the files, receives the record of the *)
(* failure, writes it and flushes every 100 ms.                            *)
(***************************************************************************)
FLUSH_INTERVAL_MS == 100
SHUTDOWN_SLEEP_MS == 100
ShutdownStepMs == 50
MaxShutdownClock == 300

FilesOpened == \A f \in LogFiles : log_file[f] # "opening"

\* OpenOptions::open(..).await of a log file returns, the access file before
\* the error file: the file is open, or the failure is printed and the file
\* is None from then on.  After the last open the log task spawns the flush
\* task, whose interval ticks at once and then every 100 ms.
log_task_opens_files(file, open_ok) ==
  /\ log_file[file] = "opening"
  /\ file = "error" => log_file["access"] # "opening"
  /\ log_file' = [log_file EXCEPT ![file] = IF open_ok THEN "open" ELSE "none"]
  /\ next_tick' = IF \A f \in LogFiles \ {file} : log_file[f] # "opening" THEN now ELSE next_tick
  /\ UNCHANGED <<pipeline_vars, module_vars, listener_vars, channel_vars, write_task, holders, flush_pc,
                 buffer, disk, spawned, file_lines, file_op, now, start_pc, wake_at>>

\* The logging loop runs once the files are opened; the records in the channel
\* are those of the startup failure, short ones sent with is_error true.
logging_loop_started == FilesOpened /\ logging_loop(TRUE, SmallRecord)

\* interval.tick().await of the flush task returns when its time has come.
flush_tick_timed ==
  /\ FilesOpened
  /\ now >= next_tick
  /\ interval_tick
  /\ next_tick' = next_tick + FLUSH_INTERVAL_MS
  /\ UNCHANGED <<now, start_pc, wake_at>>

\* server_event_loop has returned its error; start_server starts the sleep.
start_server_sleeps ==
  /\ server_pc = "failed"
  /\ start_pc = "event_loop"
  /\ start_pc' = "sleep"
  /\ wake_at' = now + SHUTDOWN_SLEEP_MS
  /\ UNCHANGED <<pipeline_vars, module_vars, listener_vars, channel_vars, sink_vars, now, next_tick>>

\* The sleep is over: start_server returns the error, main returns and the
\* process exits with whatever the tasks of the log runtime had not done.
start_server_returns ==
  /\ start_pc = "sleep"
  /\ now >= wake_at
  /\ start_pc' = "returned"
  /\ UNCHANGED <<pipeline_vars, module_vars, listener_vars, channel_vars, sink_vars, now, next_tick, wake_at>>

\* No task of the log runtime is ready to run: the channel is empty and the
\* tasks wait for a tick that is not due or for the write of a File.
SinkTasksIdle ==
  /\ channel_len = 0
  /\ ~ENABLED SinkTaskStep
  /\ flush_pc = "tick" => now < next_tick

\* Time passes while a file is being opened, for as long as the open takes,
\* and otherwise only when nothing is ready to run: every other piece of
\* work takes no time, and a timer that has expired is served before the
\* clock moves on.
time_passes ==
  /\ now < MaxShutdownClock
  /\ start_pc = "sleep" => now < wake_at
  /\ server_pc = "failed" => start_pc # "event_loop"
  /\ FilesOpened => SinkTasksIdle
  /\ now' = now + ShutdownStepMs
  /\ UNCHANGED <<pipeline_vars, module_vars, listener_vars, channel_vars, sink_vars, next_tick, start_pc,
                 wake_at>>

ShutdownConfigs ==
  {MkTlsConfig(s, "absent", max) : s \in BOOLEAN, max \in {"absent", "TLSv1.1"}}

InitShutdown ==
  /\ cfg \in ShutdownConfigs
  /\ NoRequestYet
  /\ modules = NoModules
  /\ channel_len = 0
  /\ producer = [p \in Producers |-> "idle"]
  /\ write_task = [t \in WriteTasks |-> NoWriteTask]
  /\ spawned = 0
  /\ file_lines = [f \in LogFiles |-> <<>>]
  /\ file_op = [f \in LogFiles |-> "idle"]
  /\ holders = [f \in LogFiles |-> {}]
  /\ flush_pc = "tick"
  /\ buffer = [f \in LogFiles |-> 0]
  /\ disk = [f \in LogFiles |-> 0]
  /\ log_file \in {[f \in LogFiles |-> IF f = "error" THEN "opening" ELSE access] :
                    access \in {"opening", "none"}}
  /\ now = 0
  /\ next_tick = 0
  /\ start_pc = "event_loop"
  /\ wake_at = 0
  /\ server_pc = "init"
  /\ listener = FALSE
  /\ listener_tls = FALSE
  /\ server_result = ServerRunning
  /\ server_log = <<>>
  /\ conn = [c \in Connections |-> NoConnection]
  /\ accept_failures = 0
  /\ startup = NotStarted

\* The tasks of the log runtime run until start_server returns; the records
\* are short, so that no write waits with a line for the File
\* (write_task_poll_write).  A write that a File has handed to the
\* blocking pool ends also after that, for the runtime waits for the
\* threads of its pool when it is dropped.
NextShutdown ==
  \/ /\ start_pc # "returned"
     /\ \/ \E bind_ok \in BOOLEAN, bind_tls_ok \in BOOLEAN : server_binds(bind_ok, bind_tls_ok)
        \/ no_server_is_listening
        \/ start_server_sleeps
        \/ start_server_returns
        \/ \E file \in LogFiles, open_ok \in BOOLEAN : log_task_opens_files(file, open_ok)
        \/ logging_loop_started
        \/ \E t \in WriteTasks : write_task_locks(t)
        \/ \E t \in WriteTasks : write_task_writes(t)
        \/ flush_tick_timed
        \/ \E file \in LogFiles : flush_locks(file)
        \/ \E file \in LogFiles : flush_flushes(file)
        \/ \E file \in LogFiles : flush_poll_flush(file)
        \/ time_passes
  \/ \E file \in LogFiles, reach \in Reaches, cut \in BOOLEAN : file_write_completes(file, reach, cut)

SpecShutdown == InitShutdown /\ [][NextShutdown]_vars

\* C24: when server_event_loop has failed with the error log file
\* configured and start_server has returned, the record of the failure is in
\* the error log file, whole, once the File has no write under way.
C24_FatalErrorFlushedBeforeExit ==
  (start_pc = "returned" /\ file_op["error"] # "writing") =>
     /\ disk["error"] = Len(server_log)
     /\ \A line \in LinesOf("error") : IsInFile(line) => ~line.cut

(***************************************************************************)
(* The X-Forwarded-For module (modules/x_forwarded_for.rs).  A header      *)
(* value is a sequence of pieces of text: an IPv4 address, an IPv6         *)
(* address, a word, a space, a comma, and a byte that is not visible       *)
(* ASCII.  No two or more of the pieces other than the space join into an  *)
(* IP address.                                                             *)
(***************************************************************************)
OPAQUE_BYTE == "<0xFF>"
IpTexts == {"203.0.113.7", "2001:db8::7"}
HeaderPieces == IpTexts \cup {"unknown", " ", ",", OPAQUE_BYTE}
MaxHeaderPieces == 3
HeaderValues == UNION {[1..n -> HeaderPieces] : n \in 0..MaxHeaderPieces}
NoXffHeader == [present |-> FALSE, value |-> <<>>]
XffHeaders == {NoXffHeader} \cup {[present |-> TRUE, value |-> v] : v \in HeaderValues}
XffRemoteAddrs == {SocketAddr("198.51.100.1", 51000), SocketAddr("198.51.100.2", 52000)}
XffConfigs ==
  {[k \in {} |-> YamlNull]}
    \cup {[k \in {"enableIPSpoofing"} |-> y] : y \in {YamlBoolean(TRUE), YamlBoolean(FALSE), YamlString}}

\* HeaderValue::to_str: the text of a value made of visible ASCII only.
to_str(value) == [ok |-> \A i \in 1..Len(value) : value[i] # OPAQUE_BYTE, text |-> value]

\* x_forwarded_for.split(",").nth(0): the text before the first comma.
RECURSIVE split_nth0(_)
split_nth0(text) ==
  IF text = <<>> \/ Head(text) = "," THEN <<>>
  ELSE <<Head(text)>> \o split_nth0(Tail(text))

\* ip_address_str.replace(" ", "")
IsNoSpace(piece) == piece # " "
replace_spaces(text) == SelectSeq(text, IsNoSpace)

\* prepared_remote_ip_str.parse::<IpAddr>()
parse_ip(text) ==
  IF Len(text) = 1 /\ text[1] \in IpTexts THEN [ok |-> TRUE, ip |-> text[1]]
  ELSE [ok |-> FALSE, ip |-> ""]

XffPass(entry) ==
  [called |-> TRUE, entry |-> entry, ok |-> TRUE, status |-> 0,
   new_remote_address |-> NoSocketAddr]
XffStatus(entry, status) == [XffPass(entry) EXCEPT !.status = status]
XffRewrite(entry, addr) == [XffPass(entry) EXCEPT !.new_remote_address = addr]
XffErr(entry) == [XffPass(entry) EXCEPT !.ok = FALSE]

\* A handler that rewrites the address whatever enableIPSpoofing is.
x_forwarded_for_always(config, header, remote_addr) ==
  LET entry == "request_handler" IN
  IF header.present
  THEN IF ~to_str(header.value).ok THEN XffErr(entry)
       ELSE LET prepared_remote_ip == parse_ip(replace_spaces(split_nth0(to_str(header.value).text)))
            IN IF prepared_remote_ip.ok
               THEN XffRewrite(entry, SocketAddr(prepared_remote_ip.ip, remote_addr.port))
               ELSE XffStatus(entry, 400)
  ELSE XffPass(entry)

\* XForwardedForModuleHandlers::request_handler
x_forwarded_for(config, header, remote_addr) ==
  LET entry == "request_handler"
      enabled == as_bool(ConfigGet(config, "enableIPSpoofing"))
  IN
  IF enabled.some /\ enabled.value
  THEN IF header.present
       THEN IF ~to_str(header.value).ok THEN XffErr(entry)
            ELSE LET prepared_remote_ip ==
                       parse_ip(replace_spaces(split_nth0(to_str(header.value).text)))
                 IN IF prepared_remote_ip.ok
                    THEN XffRewrite(entry, SocketAddr(prepared_remote_ip.ip, remote_addr.port))
                    ELSE XffStatus(entry, 400)
       ELSE XffPass(entry)
  ELSE XffPass(entry)

\* The chain walk calls request_handler of the module.
xff_request_handler ==
  /\ ~xff_out.called
  /\ xff_out' = x_forwarded_for(cfg, xff_in.header, xff_in.remote_addr)
  /\ UNCHANGED <<pipeline_vars, channel_vars, sink_vars, listener_vars, shutdown_vars, xff_in,
                 resolve_in, resolve_out, errpage_in, errpage_out>>

\* The chain walk calls proxy_request_handler of the module.
xff_proxy_request_handler ==
  /\ ~xff_out.called
  /\ xff_out' = XffPass("proxy_request_handler")
  /\ UNCHANGED <<pipeline_vars, channel_vars, sink_vars, listener_vars, shutdown_vars, xff_in,
                 resolve_in, resolve_out, errpage_in, errpage_out>>

InitXff ==
  /\ cfg \in XffConfigs
  /\ RequestNotStarted
  /\ modules = NoModules
  /\ ServerAtRest
  /\ xff_in \in [header : XffHeaders, remote_addr : XffRemoteAddrs]
  /\ xff_out = NoXffCall
  /\ resolve_in = NoResolution
  /\ resolve_out = NoResolution
  /\ errpage_in = NoErrorPageCall
  /\ errpage_out = NoErrorPageCall

NextXff == xff_request_handler \/ xff_proxy_request_handler

SpecXff == InitXff /\ [][NextXff]_vars

\* The first comma-separated element of a header value, spaces removed.
FirstHop(value) ==
  LET commas == {i \in 1..Len(value) : value[i] = ","}
      end == IF commas = {} THEN Len(value)
             ELSE (CHOOSE i \in commas : \A j \in commas : i <= j) - 1
      hop == [i \in 1..end |-> value[i]]
  IN SelectSeq(hop, IsNoSpace)
FirstHopIsIp(value) == Len(FirstHop(value)) = 1 /\ FirstHop(value)[1] \in IpTexts
SpoofingEnabled == "enableIPSpoofing" \in DOMAIN cfg /\ cfg["enableIPSpoofing"] = YamlBoolean(TRUE)
VisibleAscii(value) == \A i \in 1..Len(value) : value[i] # OPAQUE_BYTE

\* C25 as stated: with enableIPSpoofing true and an x-forwarded-for header,
\* request_handler continues with the first hop and the original port as the
\* new remote address when the first element parses as an IP address and
\* yields status 400 without a rewrite when it does not; with the flag not
\* true, without the header, or on proxy_request_handler, the request is
\* passed on with no rewrite and no status.
C25_FirstHopHonoredWhenEnabled ==
  xff_out.called =>
    IF xff_out.entry = "request_handler" /\ SpoofingEnabled /\ xff_in.header.present
    THEN IF FirstHopIsIp(xff_in.header.value)
         THEN xff_out = XffRewrite("request_handler",
                           SocketAddr(FirstHop(xff_in.header.value)[1], xff_in.remote_addr.port))
         ELSE xff_out = XffStatus("request_handler", 400)
    ELSE xff_out.ok /\ xff_out.status = 0 /\ xff_out.new_remote_address = NoSocketAddr

\* C25: as above for a header value of visible ASCII; with the flag true, a
\* header value holding any other byte makes request_handler fail with an
\* error, with no rewrite and no status.
C25_FirstHopHonoredWhenEnabledAndAscii ==
  xff_out.called =>
    IF xff_out.entry = "request_handler" /\ SpoofingEnabled /\ xff_in.header.present
    THEN IF ~VisibleAscii(xff_in.header.value)
         THEN ~xff_out.ok /\ xff_out.status = 0 /\ xff_out.new_remote_address = NoSocketAddr
         ELSE IF FirstHopIsIp(xff_in.header.value)
         THEN xff_out = XffRewrite("request_handler",
                           SocketAddr(FirstHop(xff_in.header.value)[1], xff_in.remote_addr.port))
         ELSE xff_out = XffStatus("request_handler", 400)
    ELSE xff_out.ok /\ xff_out.status = 0 /\ xff_out.new_remote_address = NoSocketAddr

C25_Witness ==
  /\ xff_out.called
  /\ xff_in.header.value = <<" ", "203.0.113.7", ",">>
  /\ xff_in.remote_addr.port = 52000
  /\ xff_out.new_remote_address = SocketAddr("203.0.113.7", 52000)

(***************************************************************************)
(* Configuration resolution and URL sanitation at the head of              *)
(* request_handler_wrapped.  A path is the sequence of its segments:       *)
(* /a//b is <<"a", "", "b">>.                                              *)
(***************************************************************************)
PathSegments == {"a", "b", "..", ""}
MaxSegments == 3
RequestPaths == UNION {[1..n -> PathSegments] : n \in 0..MaxSegments}

\* The locations of the host: their path prefixes and the configuration each
\* one gives.
HostLocations == {<<"a">>, <<"a", "b">>}
HostConfigName == "host"
LocationConfigName(location) == IF location = <<"a">> THEN "location /a" ELSE "location /a/b"

IsPrefix(prefix, sequence) ==
  /\ Len(prefix) <= Len(sequence)
  /\ \A i \in 1..Len(prefix) : prefix[i] = sequence[i]

\* combine_config: the most specific location whose path prefix matches the
\* path it is given, else the host.
combine_config_location(request_path) ==
  LET matching == {l \in HostLocations : IsPrefix(l, request_path)} IN
  IF matching = {} THEN HostConfigName
  ELSE LocationConfigName(CHOOSE l \in matching : \A m \in matching : Len(m) <= Len(l))

\* sanitize_url: repeated slashes are collapsed unless allowed, `..` removes
\* the segment before it and is rejected when there is none.
RECURSIVE sanitize_segments(_, _, _)
sanitize_segments(todo, done, allow_double_slashes) ==
  IF todo = <<>> THEN [ok |-> TRUE, path |-> done]
  ELSE IF Head(todo) = "" /\ ~allow_double_slashes
  THEN sanitize_segments(Tail(todo), done, allow_double_slashes)
  ELSE IF Head(todo) = ".."
  THEN IF done = <<>> THEN [ok |-> FALSE, path |-> <<>>]
       ELSE sanitize_segments(Tail(todo), SubSeq(done, 1, Len(done) - 1), allow_double_slashes)
  ELSE sanitize_segments(Tail(todo), Append(done, Head(todo)), allow_double_slashes)
sanitize_url(url_pathname, allow_double_slashes) ==
  sanitize_segments(url_pathname, <<>>, allow_double_slashes)

\* request_handler_wrapped up to the sanitizer: combine_config is given
\* request.uri().path(), then sanitize_url is given the same path.
resolve_then_sanitize(url_pathname, allow_double_slashes) ==
  LET combined_config == combine_config_location(url_pathname)
      sanitized_url_pathname == sanitize_url(url_pathname, allow_double_slashes)
  IN [combined_config |-> combined_config,
      status |-> IF sanitized_url_pathname.ok THEN 0 ELSE 400,
      sanitized_url_pathname |-> sanitized_url_pathname.path]

\* The next of the two requests arrives.
request_resolved ==
  /\ resolve_in # NoResolution
  /\ Len(resolve_out) < Len(resolve_in.paths)
  /\ resolve_out' =
       Append(resolve_out,
              resolve_then_sanitize(resolve_in.paths[Len(resolve_out) + 1],
                                    resolve_in.allow_double_slashes))
  /\ UNCHANGED <<pipeline_vars, channel_vars, sink_vars, listener_vars, shutdown_vars,
                 xff_in, xff_out, resolve_in, errpage_in, errpage_out>>

InitResolve ==
  /\ cfg = MkConfig(TRUE, TRUE, FALSE, FALSE, YamlNull)
  /\ RequestNotStarted
  /\ modules = NoModules
  /\ ServerAtRest
  /\ xff_in = NoXffCall
  /\ xff_out = NoXffCall
  /\ resolve_in \in [paths : RequestPaths \X RequestPaths, allow_double_slashes : BOOLEAN]
  /\ resolve_out = <<>>
  /\ errpage_in = NoErrorPageCall
  /\ errpage_out = NoErrorPageCall

NextResolve == request_resolved

SpecResolve == InitResolve /\ [][NextResolve]_vars

\* C26: two requests that both pass the sanitizer and whose paths sanitize
\* to the same path are given the same effective configuration.
C26_SamePathSameConfig ==
  (/\ resolve_in # NoResolution
   /\ Len(resolve_out) = 2
   /\ resolve_out[1].status = 0
   /\ resolve_out[2].status = 0
   /\ resolve_out[1].sanitized_url_pathname = resolve_out[2].sanitized_url_pathname)
     => resolve_out[1].combined_config = resolve_out[2].combined_config

POST_FAILURE_TEXT == "Unexpected error while serving a request (post)"
HeaderOfOutcome(n) == IF saved_headers.some THEN saved_headers.map[n] ELSE NoHeader

\* C27: the step in which a response-modifying handler fails leaves the
\* post-processing loop with a new 500 response, and no response-modifying
\* entry point runs afterwards although handlers may remain on the stack; the
\* failure is sent to the error log when one is configured; the response
\* returned is a 500 with the Server header, with the customHeaders value for
\* every header the outcome that ended the walk did not give, and with nothing
\* of the response the handlers had produced.
C27_PostProcessingFailureCollapsesTo500 ==
  /\ [][(~collapsed /\ collapsed') =>
           /\ pc = "post" /\ pc' # "post"
           /\ Len(post_calls') = Len(post_calls) + 1
           /\ response'.status = 500
           /\ response'.headers["x-test"] = HeaderOfOutcome("x-test")]_vars
  /\ [][(collapsed /\ collapsed') =>
           (post_calls' = post_calls /\ forward_calls' = forward_calls)]_vars
  /\ [](collapsed /\ pc = "done" =>
          /\ result.kind = "Ok"
          /\ result.response.status = 500
          /\ result.response.headers["server"] = SERVER_SOFTWARE
          /\ result.response.headers["x-test"] =
               IF HeaderOfOutcome("x-test") # NoHeader THEN HeaderOfOutcome("x-test")
               ELSE IF CustomHeadersConfigured THEN "ignored"
               ELSE NoHeader
          /\ "errorLogFilePath" \in DOMAIN cfg =>
               /\ Len(PipelineErrorRecords) = 1
               /\ PipelineErrorRecords[1].msg = POST_FAILURE_TEXT
          /\ "errorLogFilePath" \notin DOMAIN cfg => Len(PipelineErrorRecords) = 0)

C27_Witness ==
  /\ collapsed
  /\ pc = "done"
  /\ CustomHeadersConfigured
  /\ "errorLogFilePath" \in DOMAIN cfg
  /\ executed_handlers # <<>>
  /\ "x-test" \in handler_set
  /\ result.response.headers["x-test"] = "ignored"
  /\ result.response.status = 500

(***************************************************************************)
(* SpecDispatch: the dispatch of CONNECT and upgrade requests to the       *)
(* handlers of the chain.  Servers with every chain of up to NumHandlers   *)
(* modules, each advertising CONNECT, WebSocket or nothing; requests of    *)
(* HTTP/1.1 with a lowercase Host header, several on one connection.       *)
(***************************************************************************)
RequestsDispatch ==
  {req \in Requests : req.host = SomeHost(<<97, 46>>) /\ req.version = "HTTP/1.1"}
DispatchConfigs == {MkConfig(log, errlog, FALSE, FALSE, YamlNull) : log, errlog \in BOOLEAN}
InitDispatch ==
  /\ cfg \in DispatchConfigs
  /\ modules \in HandlerChains
  /\ NoRequestYet
  /\ ServerAtRest
\* Handlers that pass the request on, answer it, or fail, and spawn nothing.
DispatchForwardResults == {o \in BareForwardResults : ~o.parallel_fn /\ o.status = 0}
NextDispatch ==
  \/ PipelineStep(RequestsDispatch, DispatchForwardResults, BarePostResults)
  \/ next_request
SpecDispatch == InitDispatch /\ [][NextDispatch]_vars

\* The first module of the server that advertises CONNECT, 0 when none does.
FirstConnectCapable ==
  LET capable == {i \in 1..Len(modules) : modules[i].connect} IN
  IF capable = {} THEN 0 ELSE CHOOSE i \in capable : \A j \in capable : i <= j
ConnectPaths == {"connect501", "connect400", "connect200"}
ConnectOutcome ==
  IF FirstConnectCapable = 0 THEN [path |-> "connect501", status |-> 501]
  ELSE IF ~request.is_proxy_request THEN [path |-> "connect400", status |-> 400]
  ELSE [path |-> "connect200", status |-> 200]
TunnelErrorTexts == {TASK_ERROR_TEXT["connect"], CONNECT_UPGRADE_ERROR_TEXT}

\* C28: a CONNECT request that reaches the dispatch is given to the first
\* handler of the chain that advertises CONNECT: 501 when there is none, 400
\* when there is one but the request has no authority, otherwise 200 with the
\* task of that handler spawned and not awaited.  On the three outcomes no
\* forward and no response-modifying entry point is called, and the end of
\* the tunnel task, with or without an error, leaves the response as it is
\* and adds at most one error record.
C28_ConnectDispatch ==
  /\ [](path \in ConnectPaths =>
          /\ path = ConnectOutcome.path
          /\ response.status = ConnectOutcome.status
          /\ ReturnedResponse => result.response.status = ConnectOutcome.status
          /\ forward_calls = <<>>
          /\ post_calls = <<>>
          /\ path = "connect200" => tasks.connect_handler = FirstConnectCapable
          /\ pc = "acclog" => ENABLED send_access_log)
  /\ [][/\ (pc = "idle" /\ path' = "connect200") =>
             /\ tasks'.connect = "upgrading"
             /\ pc' \in {"acclog", "done"}
        /\ (pc = "idle" /\ path' \in ConnectPaths \ {"connect200"}) => tasks' = tasks
        /\ (tasks.connect \in {"upgrading", "running"} /\ tasks'.connect = "finished") =>
             /\ result' = result
             /\ response' = response
             /\ pc' = pc
             /\ \/ logger' = logger
                \/ /\ error_log_enabled(cfg)
                   /\ \E text \in TunnelErrorTexts :
                        logger' = Append(logger, error_message(text))
       ]_vars

C28_Witness ==
  /\ Len(modules) = 2
  /\ modules[1].connect
  /\ modules[2].connect
  /\ path = "connect200"
  /\ tasks.connect_handler = 1
  /\ tasks.connect = "finished"
  /\ ReturnedResponse
  /\ result.response.status = 200
  /\ \E i \in 1..Len(logger) : logger[i] = error_message(TASK_ERROR_TEXT["connect"])

\* The walk is at a handler that advertises WebSocket, on an upgrade request.
WebSocketVisit ==
  /\ pc = "chain"
  /\ request.is_websocket_request
  /\ modules[idx].websocket
WebSocketPaths == {"websocket", "websocket500"}
WEBSOCKET_UPGRADE_ERROR_TEXT == "Error while upgrading WebSocket request"
ForwardCalled(i) == \E k \in 1..Len(forward_calls) : forward_calls[k].handler = i

\* C30: when the walk of an upgrade request reaches a handler that advertises
\* WebSocket, the forward entry point of that handler is not called and the
\* handshake is done in its place.  A handshake that succeeds spawns the task
\* of that handler and returns the handshake response, with its handshake
\* headers and its body; one that fails spawns
\* nothing, sends the error to the error log when there is one and returns
\* 500.  Either way no further handler is visited.
C30_WebSocketDispatch ==
  /\ [](WebSocketVisit =>
          /\ ~ENABLED (\E o \in DispatchForwardResults : forward_handler(o))
          /\ ENABLED websocket_upgrade(TRUE)
          /\ ENABLED websocket_upgrade(FALSE)
          /\ ~ForwardCalled(idx))
  /\ [](path \in WebSocketPaths =>
          /\ handlers_vec = <<>>
          /\ ~ForwardCalled(idx)
          /\ \A i \in 1..Len(modules) : ForwardCalled(i) => i < idx
          /\ response.status = IF path = "websocket" THEN 101 ELSE 500
          /\ ReturnedResponse => result.response.status = response.status
          /\ (path = "websocket" /\ ReturnedResponse) =>
               /\ result.response.size_hint = original_response.size_hint
               /\ \A n \in HandshakeHeaderNames :
                    result.response.headers[n] = original_response.headers[n]
          /\ (path = "websocket500" /\ ReturnedResponse) =>
               (error_log_enabled(cfg) <=>
                  \E k \in 1..Len(logger) :
                     logger[k] = error_message(WEBSOCKET_UPGRADE_ERROR_TEXT)))
  /\ [][/\ (WebSocketVisit /\ pc' # "chain") =>
             /\ path' \in WebSocketPaths
             /\ forward_calls' = forward_calls
             /\ post_calls' = post_calls
             /\ idx' = idx
             /\ IF path' = "websocket"
                THEN /\ tasks' = [tasks EXCEPT !.websocket = "running",
                                               !.websocket_handler = idx]
                ELSE /\ tasks' = tasks
        /\ (path \in WebSocketPaths /\ path' = path) =>
             /\ forward_calls' = forward_calls
             /\ post_calls' = post_calls
             /\ tasks'.websocket \in {tasks.websocket, "finished"}
             /\ tasks'.websocket_handler = tasks.websocket_handler
        /\ path' \in WebSocketPaths => path \in WebSocketPaths \/ WebSocketVisit
       ]_vars

C30_Witness ==
  /\ path = "websocket"
  /\ ReturnedResponse
  /\ result.response.status = 101
  /\ idx = 2
  /\ ForwardCalled(1)
  /\ tasks.websocket = "running"
  /\ tasks.websocket_handler = 2

AsteriskStatus == IF request.asterisk_form = "options" THEN 204 ELSE 400
AsteriskAnswered ==
  /\ result.response.status = AsteriskStatus
  /\ result.response.headers["allow"] = ALLOW_METHODS
AsteriskLeavesChainAlone ==
  /\ pc \notin {"chain", "post"}
  /\ forward_calls = <<>>
  /\ post_calls = <<>>
  /\ handlers_vec = <<>>

\* C31 (as stated): a request whose target is `*` never reaches the handler
\* chain and is answered 204 (OPTIONS) or 400 (any other method), with
\* Allow: GET, POST, HEAD, OPTIONS.
C31_AsteriskFormAnswered ==
  request.asterisk_form # "no" =>
    /\ AsteriskLeavesChainAlone
    /\ ReturnedResponse => AsteriskAnswered

\* C31 (amended): a request whose target is `*` never reaches the handler
\* chain nor the CONNECT dispatch; when its Host header is accepted and its
\* configuration is resolved it is answered 204 (OPTIONS) or 400 (any other
\* method) with Allow: GET, POST, HEAD, OPTIONS, and otherwise it is answered
\* by the Host or the configuration step, without the Allow header.
C31_AsteriskFormAnsweredAfterResolution ==
  request.asterisk_form # "no" =>
    /\ AsteriskLeavesChainAlone
    /\ path \in {"host400", "cfg500", "asterisk"}
    /\ (ReturnedResponse /\ path = "asterisk") => AsteriskAnswered
    /\ (ReturnedResponse /\ path # "asterisk") =>
         /\ result.response.status = IF path = "host400" THEN 400 ELSE 500
         /\ result.response.headers["allow"] = NoHeader

C31_Witness ==
  /\ request.asterisk_form = "other"
  /\ request.is_proxy_request
  /\ modules = <<ConnectHandler>>
  /\ path = "asterisk"
  /\ ReturnedResponse
  /\ result.response.status = 400
  /\ result.response.headers["allow"] = ALLOW_METHODS
  /\ tasks.connect = "none"

(***************************************************************************)
(* generate_error_response with `errorPages` configured                    *)
(* (request_handler.rs:30-102).  A file named by an entry cannot be        *)
(* opened, can be opened and measured, or can be opened but not measured   *)
(* (file.metadata() fails).                                                *)
(***************************************************************************)
MaxErrorPages == 2
ErrorPageFiles == {"/404.html", "/other.html"}
FileLen(page_path) == IF page_path = "/404.html" THEN 10 ELSE 20
FileStates == {"missing", "ok", "nostat"}
ErrorPageScodes == {YamlInteger(404), YamlInteger(500), YamlInteger(70000), YamlString}
ErrorPagePaths == {YamlText(f) : f \in ErrorPageFiles} \cup {YamlBadValue}
ErrorPageEntries == [scode : ErrorPageScodes, path : ErrorPagePaths]
ErrorPageLists == UNION {[1..n -> ErrorPageEntries] : n \in 0..MaxErrorPages}

NoContentLength == [some |-> FALSE, len |-> 0]
SomeContentLength(len) == [some |-> TRUE, len |-> len]

\* A call of generate_error_response: where it is ("open" and "metadata":
\* suspended in File::open(..).await and in file.metadata().await of the
\* entry), and the body and the Content-Length it has chosen.
ErrorPageCall(at, entry, body, content_length) ==
  [called |-> TRUE, at |-> at, entry |-> entry, body |-> body, content_length |-> content_length]
DefaultErrorBody ==
  ErrorPageCall("returned", 0, "default", SomeContentLength(DEFAULT_ERROR_PAGE_LEN))
FileErrorBody(entry, page_path, content_length) ==
  ErrorPageCall("returned", entry, page_path, content_length)
ErrorPagePath(entry) == as_str(errpage_in.error_pages[entry].path).text

\* StatusCode::from_u16(page_status_code.try_into()): a code that fits u16 and
\* lies in 100..999.
status_code_from_i64(n) == n >= 0 /\ n <= 65535 /\ n >= 100 /\ n <= 999

\* for error_page_yaml in error_pages { .. }: the entries from the i-th on,
\* up to the first whose file the loop opens; past the last one when the
\* loop ends.
RECURSIVE error_page_walk(_, _, _)
error_page_walk(error_pages, i, status_code) ==
  IF i > Len(error_pages) THEN i
  ELSE LET error_page_yaml == error_pages[i] IN
       IF ~as_i64_is_some(error_page_yaml.scode)
       THEN error_page_walk(error_pages, i + 1, status_code)
       ELSE IF ~status_code_from_i64(error_page_yaml.scode.v)
       THEN error_page_walk(error_pages, i + 1, status_code)
       ELSE IF status_code # error_page_yaml.scode.v
       THEN error_page_walk(error_pages, i + 1, status_code)
       ELSE IF ~as_str(error_page_yaml.path).some
       THEN error_page_walk(error_pages, i + 1, status_code)
       ELSE i

\* The loop from the i-th entry on: it suspends in the open of a file, or it
\* ends and the default body stays.
error_page_loop(i) ==
  LET entry == error_page_walk(errpage_in.error_pages, i, errpage_in.status_code) IN
  IF entry > Len(errpage_in.error_pages) THEN DefaultErrorBody
  ELSE ErrorPageCall("open", entry, "default", SomeContentLength(DEFAULT_ERROR_PAGE_LEN))

\* generate_error_response(status_code, ..) is called and runs until it
\* returns or suspends.
generate_error_response_called ==
  /\ errpage_in # NoErrorPageCall
  /\ errpage_out = NoErrorPageCall
  /\ errpage_out' = error_page_loop(1)
  /\ UNCHANGED <<pipeline_vars, channel_vars, sink_vars, listener_vars, shutdown_vars,
                 xff_in, xff_out, resolve_in, resolve_out, errpage_in>>

\* fs::File::open(page_path).await returns: Err, and the loop continues with
\* the next entry; Ok, and the call suspends in file.metadata().await.
file_open_returns ==
  /\ errpage_out # NoErrorPageCall
  /\ errpage_out.at = "open"
  /\ errpage_out' =
       IF errpage_in.files[ErrorPagePath(errpage_out.entry)] = "missing"
       THEN error_page_loop(errpage_out.entry + 1)
       ELSE [errpage_out EXCEPT !.at = "metadata"]
  /\ UNCHANGED <<pipeline_vars, channel_vars, sink_vars, listener_vars, shutdown_vars,
                 xff_in, xff_out, resolve_in, resolve_out, errpage_in>>

\* file.metadata().await returns for the file that is open: its length is
\* the Content-Length, None when it fails; the body is the file and the
\* loop breaks.  A file removed after it was opened still has its length.
file_metadata_returns ==
  LET page_path == ErrorPagePath(errpage_out.entry) IN
  /\ errpage_out # NoErrorPageCall
  /\ errpage_out.at = "metadata"
  /\ errpage_out' =
       FileErrorBody(errpage_out.entry, page_path,
                     IF errpage_in.files[page_path] = "nostat" THEN NoContentLength
                     ELSE SomeContentLength(FileLen(page_path)))
  /\ UNCHANGED <<pipeline_vars, channel_vars, sink_vars, listener_vars, shutdown_vars,
                 xff_in, xff_out, resolve_in, resolve_out, errpage_in>>

\* The deadline of the request passes while the call is suspended: timeout
\* drops the future of request_handler_wrapped and with it the call, and the
\* request ends with "The client or server has timed out".
generate_error_response_abandoned ==
  /\ errpage_out # NoErrorPageCall
  /\ errpage_out.at \in {"open", "metadata"}
  /\ errpage_out' = [errpage_out EXCEPT !.at = "abandoned"]
  /\ UNCHANGED <<pipeline_vars, channel_vars, sink_vars, listener_vars, shutdown_vars,
                 xff_in, xff_out, resolve_in, resolve_out, errpage_in>>

\* While the call is suspended a file becomes another: it is removed,
\* created, or its length can no more be read.
error_page_file_changes(page_path, state) ==
  /\ errpage_out # NoErrorPageCall
  /\ errpage_out.at \in {"open", "metadata"}
  /\ errpage_in.files[page_path] # state
  /\ errpage_in' = [errpage_in EXCEPT !.files[page_path] = state, !.changed = TRUE]
  /\ UNCHANGED <<pipeline_vars, channel_vars, sink_vars, listener_vars, shutdown_vars,
                 xff_in, xff_out, resolve_in, resolve_out, errpage_out>>

InitErrorPages ==
  /\ cfg = MkConfig(TRUE, TRUE, FALSE, FALSE, YamlNull)
  /\ RequestNotStarted
  /\ modules = NoModules
  /\ ServerAtRest
  /\ xff_in = NoXffCall
  /\ xff_out = NoXffCall
  /\ resolve_in = NoResolution
  /\ resolve_out = NoResolution
  /\ errpage_in \in [called : {TRUE}, status_code : {404, 500},
                     error_pages : ErrorPageLists, files : [ErrorPageFiles -> FileStates],
                     changed : {FALSE}]
  /\ errpage_out = NoErrorPageCall
NextErrorPages ==
  \/ generate_error_response_called
  \/ file_open_returns
  \/ file_metadata_returns
  \/ generate_error_response_abandoned
  \/ \E page_path \in ErrorPageFiles, state \in FileStates : error_page_file_changes(page_path, state)
SpecErrorPages == InitErrorPages /\ [][NextErrorPages]_vars

\* The entries of errorPages for the status code asked for whose file can be
\* opened and measured.
QualifyingErrorPages ==
  {i \in 1..Len(errpage_in.error_pages) :
     /\ errpage_in.error_pages[i].scode = YamlInteger(errpage_in.status_code)
     /\ as_str(errpage_in.error_pages[i].path).some
     /\ errpage_in.files[as_str(errpage_in.error_pages[i].path).text] = "ok"}
FirstQualifyingErrorPage ==
  CHOOSE i \in QualifyingErrorPages : \A j \in QualifyingErrorPages : i <= j

\* C32: the error response uses the first entry of errorPages with the status
\* code asked for whose file can be opened and whose length can be read, with
\* that length as Content-Length; entries whose open or stat fails are passed
\* over; with no such entry the default body is used with its own length
\* (for a call that has returned, the files being what they were when it
\* was made).
C32_FirstOpenableAndMeasurablePage ==
  (errpage_out # NoErrorPageCall /\ errpage_out.at = "returned" /\ ~errpage_in.changed) =>
    IF QualifyingErrorPages = {} THEN errpage_out = DefaultErrorBody
    ELSE errpage_out = FileErrorBody(FirstQualifyingErrorPage, ErrorPagePath(FirstQualifyingErrorPage),
                                     SomeContentLength(FileLen(ErrorPagePath(FirstQualifyingErrorPage))))

\* A line of which the file has a part only although one write takes such a
\* line whole: the file failed in the middle of it.
CutByTheFile(line) == line.cut /\ line.size <= MaxFileWrite

\* C33: the logging loop routes a record by its error flag alone.  An error
\* record is written to the error file only, with the time in front; any
\* other record to the access file only, as it is; a line that is in the
\* file ends with its newline, unless the file failed in the middle of it.
\* A record whose file is not open is dropped with no task spawned, and the
\* loop goes on to the next record; a write that fails drops its record,
\* releases the lock and leaves the other write tasks as they are.
C33_RecordsRoutedByErrorFlag ==
  /\ [](\A f \in LogFiles :
          /\ \A line \in LinesOf(f) :
               /\ line.is_error = (f = "error")
               /\ line.time = line.is_error
               /\ IsInFile(line) => (line.newline \/ CutByTheFile(line))
               /\ log_file[f] = "open"
               /\ line.no \in 1..spawned
          /\ \A i, j \in 1..Len(file_lines[f]) :
               i # j => file_lines[f][i].no # file_lines[f][j].no)
  /\ [](\A a \in LinesOf("access"), e \in LinesOf("error") : a.no # e.no)
  /\ [](\A t \in LiveWriteTasks : log_file[write_task[t].file] = "open")
  /\ []((channel_len > 0 /\ FreeWriteTask) =>
          \A is_error \in BOOLEAN, size \in RecordSizes : ENABLED logging_loop(is_error, size))
  /\ [][/\ (channel_len' = channel_len - 1 /\ spawned' = spawned) =>
             /\ \E f \in LogFiles : log_file[f] # "open"
             /\ write_task' = write_task
             /\ file_lines' = file_lines
        /\ (channel_len' = channel_len - 1 /\ spawned' # spawned) =>
             \E t \in WriteTasks :
                /\ write_task[t].state = "unused"
                /\ write_task'[t].state = "waiting"
                /\ write_task'[t].no = spawned + 1
                /\ \A u \in WriteTasks \ {t} : write_task'[u] = write_task[u]
        /\ \A t \in WriteTasks :
             (write_task[t].state \in {"writing", "handing"} /\ write_task'[t].state = "unused") =>
                LET file == write_task[t].file
                    old == Len(file_lines[file])
                IN /\ holders'[file] = {}
                   /\ \A u \in WriteTasks \ {t} : write_task'[u] = write_task[u]
                   /\ \A f \in LogFiles \ {file} : file_lines'[f] = file_lines[f]
                   /\ \/ Len(file_lines'[file]) = old
                      \/ /\ Len(file_lines'[file]) = old + 1
                         /\ file_lines'[file][old + 1].no = write_task[t].no
                         /\ file_lines'[file][old + 1].is_error = (file = "error")
                         /\ file_lines'[file][old + 1].time = (file = "error")
       ]_vars

\* C34: in each log file the lines are in the order in which the logging loop
\* received their records, whatever the order in which the write tasks run.
C34_FifoPerFile ==
  \A f \in LogFiles :
    \A i, j \in 1..Len(file_lines[f]) :
      i < j => file_lines[f][i].no < file_lines[f][j].no

(***************************************************************************)
(* SpecSinkFair: the sink with both files open and FairBacklog records in  *)
(* the channel, every task of the log runtime scheduled fairly.  The Mutex *)
(* of tokio hands the lock to its waiters in turn, so a task that waits    *)
(* for it is not passed over for ever.                                     *)
(***************************************************************************)
FairBacklog == 2
InitSinkFair ==
  /\ cfg = MkConfig(TRUE, TRUE, FALSE, FALSE, YamlNull)
  /\ NoRequestYet
  /\ modules = NoModules
  /\ channel_len = FairBacklog
  /\ producer = [p \in Producers |-> "sent"]
  /\ write_task = [t \in WriteTasks |-> NoWriteTask]
  /\ spawned = 0
  /\ file_lines = [f \in LogFiles |-> <<>>]
  /\ file_op = [f \in LogFiles |-> "idle"]
  /\ holders = [f \in LogFiles |-> {}]
  /\ flush_pc = "tick"
  /\ buffer = [f \in LogFiles |-> 0]
  /\ disk = [f \in LogFiles |-> 0]
  /\ now = 0
  /\ next_tick = 0
  /\ start_pc = "event_loop"
  /\ wake_at = 0
  /\ log_file = [f \in LogFiles |-> "open"]
  /\ ServingOneConnection
NextSinkFair ==
  \/ \E is_error \in BOOLEAN, size \in RecordSizes : logging_loop(is_error, size)
  \/ \E t \in WriteTasks : write_task_locks(t)
  \/ \E t \in WriteTasks : write_task_writes(t)
  \/ \E t \in WriteTasks : write_task_poll_write(t)
  \/ flush_tick
  \/ \E file \in LogFiles : flush_locks(file)
  \/ \E file \in LogFiles : flush_flushes(file)
  \/ \E file \in LogFiles : flush_poll_flush(file)
  \/ \E file \in LogFiles : file_write_completes_whole(file)
SpecSinkFair ==
  /\ InitSinkFair
  /\ [][NextSinkFair]_vars
  /\ WF_vars(\E is_error \in BOOLEAN, size \in RecordSizes : logging_loop(is_error, size))
  /\ \A t \in WriteTasks : SF_vars(write_task_locks(t))
  /\ \A t \in WriteTasks : WF_vars(write_task_writes(t))
  /\ \A t \in WriteTasks : WF_vars(write_task_poll_write(t))
  /\ WF_vars(flush_tick)
  /\ \A file \in LogFiles : SF_vars(flush_locks(file))
  /\ \A file \in LogFiles : WF_vars(flush_flushes(file))
  /\ \A file \in LogFiles : WF_vars(flush_poll_flush(file))
  /\ \A file \in LogFiles : WF_vars(file_write_completes_whole(file))

\* The line of the n-th record spawned is in its file, whole.
Flushed(n) ==
  \E f \in LogFiles : \E line \in LinesOf(f) : line.no = n /\ IsInFile(line) /\ ~line.cut

\* C35: every record the sink received for an open file is in the end
\* written to the buffer of the file and flushed to the file, whole.
C35_EveryRecordFlushed ==
  \A n \in 1..FairBacklog : (spawned >= n) ~> Flushed(n)

(***************************************************************************)
(* SpecBackpressure: the senders, the channel one record short of full,    *)
(* and the whole sink with both files open.  The logging loop takes at     *)
(* most MaxWriteTasks records in a behaviour.  The records are short, so   *)
(* that no write waits with a line for the File (write_task_poll_write).   *)
(***************************************************************************)
InitBackpressure ==
  /\ cfg = MkConfig(TRUE, TRUE, FALSE, FALSE, YamlNull)
  /\ NoRequestYet
  /\ modules = NoModules
  /\ channel_len = LOG_CHANNEL_CAPACITY - 1
  /\ producer = [p \in Producers |-> "idle"]
  /\ write_task = [t \in WriteTasks |-> NoWriteTask]
  /\ spawned = 0
  /\ file_lines = [f \in LogFiles |-> <<>>]
  /\ file_op = [f \in LogFiles |-> "idle"]
  /\ holders = [f \in LogFiles |-> {}]
  /\ flush_pc = "tick"
  /\ buffer = [f \in LogFiles |-> 0]
  /\ disk = [f \in LogFiles |-> 0]
  /\ now = 0
  /\ next_tick = 0
  /\ start_pc = "event_loop"
  /\ wake_at = 0
  /\ log_file = [f \in LogFiles |-> "open"]
  /\ ServingOneConnection

NextBackpressure ==
  \/ \E p \in Producers : producer_sends(p)
  \/ \E p \in Producers : producer_resumes(p)
  \/ \E is_error \in BOOLEAN : spawned < MaxWriteTasks /\ logging_loop(is_error, SmallRecord)
  \/ \E t \in WriteTasks : write_task_locks(t)
  \/ \E t \in WriteTasks : write_task_writes(t)
  \/ flush_tick
  \/ \E file \in LogFiles : flush_locks(file)
  \/ \E file \in LogFiles : flush_flushes(file)
  \/ \E file \in LogFiles : flush_poll_flush(file)
  \/ \E file \in LogFiles : file_write_completes_whole(file)

SpecBackpressure == InitBackpressure /\ [][NextBackpressure]_vars

\* The records that were sent and are not yet in a file buffer: those in the
\* channel and those held by a write task that has not written yet.
RecordsInFlight == channel_len + Cardinality(LiveWriteTasks)

\* The code sets no limit to the write tasks that wait for a lock; the model
\* has MaxWriteTasks of them, so that any constant below MaxWriteTasks stands
\* for the constant of a bound on what the sink holds besides the channel.
SinkSlack == MaxWriteTasks - 1

\* C36: the records sent and not yet written into a file buffer are never
\* more than the channel capacity plus a constant, also while the lock of a
\* file is held.
C36_BackpressureCoversSink ==
  RecordsInFlight <= LOG_CHANNEL_CAPACITY + SinkSlack

(***************************************************************************)
(* SpecSideEffects: handler outcomes that carry every combination of a     *)
(* request, a response, a status, a task to spawn and a new remote         *)
(* address, under the configuration that enables both logs.                *)
(***************************************************************************)
SideEffectResults ==
  [ok : {TRUE}, request : BOOLEAN, response : {NoResponse, Response(200, EmptyHeaders)},
   status : {0, 403}, headers : {NoHeaderMap}, parallel_fn : BOOLEAN,
   auth_data : {NoUser}, new_remote_address : {NoAddress, "forwarded"}]
  \cup {HandlerError}
InitSideEffects == Init /\ cfg = MkConfig(TRUE, TRUE, TRUE, FALSE, YamlNull)
NextSideEffects == PipelineStep(RequestsLowercaseHost, SideEffectResults, BarePostResults)
SpecSideEffects == InitSideEffects /\ [][NextSideEffects]_vars

\* C37: whatever an outcome carries first (a response, a status, a request or
\* nothing), its new_remote_address replaces the remote address of the
\* request and its parallel_fn is spawned; the access-log record of the
\* request carries the address as rewritten by all the outcomes.
C37_SideEffectsWhateverPrimary ==
  /\ [][(Len(outcomes') = Len(outcomes) + 1 /\ outcomes'[Len(outcomes')].ok) =>
          LET o == outcomes'[Len(outcomes')] IN
            /\ socket_data'.remote_addr =
                 IF o.new_remote_address # NoAddress THEN o.new_remote_address
                 ELSE socket_data.remote_addr
            /\ o.parallel_fn => tasks'.parallel = "running"
       ]_vars
  /\ []((pc = "done" /\ outcomes # <<>>) =>
          /\ Len(AccessRecords) = 1
          /\ AccessRecords[1].client_ip = RemoteAddressAfter(Len(outcomes)))

C37_Witness ==
  /\ pc = "done"
  /\ path = "response"
  /\ Len(outcomes) = 2
  /\ outcomes[2].response
  /\ outcomes[2].parallel_fn
  /\ outcomes[2].new_remote_address = "forwarded"
  /\ outcomes[1].new_remote_address = NoAddress
  /\ tasks.parallel = "running"
  /\ AccessRecords[1].client_ip = "forwarded"

(***************************************************************************)
(* SpecUpgradeAuth: the dispatch of SpecDispatch with the access log on    *)
(* and handlers that set the user.                                         *)
(***************************************************************************)
UpgradeAuthConfigs == {MkConfig(TRUE, errlog, FALSE, FALSE, YamlNull) : errlog \in BOOLEAN}
UpgradeAuthResults ==
  [ok : {TRUE}, request : BOOLEAN, response : {NoResponse, Response(200, EmptyHeaders)},
   status : {0}, headers : {NoHeaderMap}, parallel_fn : {FALSE},
   auth_data : {NoUser, "alice"}, new_remote_address : {NoAddress}]
  \cup {HandlerError}
InitUpgradeAuth ==
  /\ cfg \in UpgradeAuthConfigs
  /\ modules \in HandlerChains
  /\ NoRequestYet
  /\ ServerAtRest
NextUpgradeAuth == PipelineStep(RequestsDispatch, UpgradeAuthResults, BarePostResults)
SpecUpgradeAuth == InitUpgradeAuth /\ [][NextUpgradeAuth]_vars

\* C38: when the walk of an upgrade request ends in the WebSocket handshake of
\* a handler, whether the handshake succeeds or not, no response-modifying
\* entry point is called, not even those of the handlers whose forward entry
\* point ran before, and the access-log record of the request names no user,
\* whatever user those handlers set.
C38_UpgradeSkipsPostProcessing ==
  /\ [](path \in WebSocketPaths =>
          /\ post_calls = <<>>
          /\ ~ENABLED (\E b \in BarePostResults : response_modifying_handler(b))
          /\ pc = "done" =>
               /\ Len(AccessRecords) = 1
               /\ AccessRecords[1].user = NoUser)
  /\ [][(path \in WebSocketPaths) =>
          /\ path' = path
          /\ executed_handlers' = executed_handlers
          /\ forward_calls' = forward_calls
       ]_vars

C38_Witness ==
  /\ path = "websocket"
  /\ pc = "done"
  /\ idx = 2
  /\ ForwardCalled(1)
  /\ executed_handlers # <<>>
  /\ outcomes[1].auth_data = "alice"
  /\ latest_auth_data = "alice"
  /\ AccessRecords[1].user = NoUser
  /\ result.response.status = 101

(***************************************************************************)
(* SpecAccept: the accept loop with both listeners bound and the log       *)
(* channel one record short of full, the tasks of the connections it       *)
(* accepts, and the logging loop that takes records from the channel      *)
(* while it holds more than the capacity less MaxBacklog.                  *)
(***************************************************************************)
InitAccept ==
  /\ cfg \in {MkServerConfig("true", "false", h) : h \in {"true", "false"}}
  /\ NoRequestYet
  /\ modules = NoModules
  /\ channel_len = LOG_CHANNEL_CAPACITY - 1
  /\ producer = [p \in Producers |-> "idle"]
  /\ write_task = [t \in WriteTasks |-> NoWriteTask]
  /\ spawned = 0
  /\ file_lines = [f \in LogFiles |-> <<>>]
  /\ file_op = [f \in LogFiles |-> "idle"]
  /\ holders = [f \in LogFiles |-> {}]
  /\ flush_pc = "tick"
  /\ buffer = [f \in LogFiles |-> 0]
  /\ disk = [f \in LogFiles |-> 0]
  /\ now = 0
  /\ next_tick = 0
  /\ start_pc = "event_loop"
  /\ wake_at = 0
  /\ log_file = [f \in LogFiles |-> "none"]
  /\ server_pc = "loop"
  /\ listener = TRUE
  /\ listener_tls = TRUE
  /\ server_result = ServerRunning
  /\ server_log = <<>>
  /\ conn = [c \in Connections |-> NoConnection]
  /\ accept_failures = 0
  /\ startup = server_startup(cfg)

NextAccept ==
  \/ \E tls \in BOOLEAN : accept_fails(tls)
  \/ \E tls \in BOOLEAN, nodelay_ok \in BOOLEAN, local_addr_ok \in BOOLEAN :
       accept_connection(tls, nodelay_ok, local_addr_ok)
  \/ accept_loop_resumes
  \/ \E c \in Connections, ok \in BOOLEAN : tls_handshake(c, ok)
  \/ \E c \in Connections, outcome \in ServeOutcomes : connection_ends(c, outcome)
  \/ \E c \in Connections : connection_task_resumes(c)
  \/ \E is_error \in BOOLEAN :
       channel_len > LOG_CHANNEL_CAPACITY - MaxBacklog /\ logging_loop(is_error, SmallRecord)

SpecAccept == InitAccept /\ [][NextAccept]_vars

\* C39: the accept loop waits for no connection.  While it is not suspended
\* in the send of an error record it can accept a connection on every bound
\* listener, whatever the connections accepted before are doing; a connection
\* that is in its handshake or being served can go on whatever the others
\* do; and the loop is suspended only in such a send, on a full channel, and
\* resumes once the channel has room.
C39_AcceptLoopNeverWaitsForConnections ==
  /\ [](server_pc \in {"loop", "sending"})
  /\ [](\A tls \in BOOLEAN :
          (server_pc = "loop" /\ Accepted # Connections) =>
             ENABLED accept_connection(tls, TRUE, TRUE))
  /\ [](\A c \in Connections :
          /\ conn[c].state = "handshake" => ENABLED tls_handshake(c, TRUE)
          /\ conn[c].state = "serving" => ENABLED connection_ends(c, "closed"))
  /\ [][(server_pc = "loop" /\ server_pc' = "sending") =>
          /\ channel_len = LOG_CHANNEL_CAPACITY
          /\ Len(server_log') = Len(server_log) + 1
          /\ LastLogged' \in {"Cannot accept a connection", "Cannot disable Nagle algorithm",
                              "Cannot obtain local address of the connection"}
       ]_vars
  /\ []((server_pc = "sending" /\ channel_len < LOG_CHANNEL_CAPACITY) =>
          ENABLED accept_loop_resumes)

C39_Witness ==
  /\ server_pc = "loop"
  /\ conn[1].state = "handshake"
  /\ conn[2].state = "closed"
  /\ ~conn[2].tls
  /\ server_log = <<>>

\* The accept loop was suspended in the send of an error record and resumed.
C39_WitnessSuspended ==
  /\ server_pc = "sending"
  /\ channel_len = LOG_CHANNEL_CAPACITY
  /\ conn[1].state = "serving"

(***************************************************************************)
(* SpecDeadline: the deadline of request_handler under every kind of       *)
(* `timeout` value: absent, null, a string, a boolean, zero, a positive    *)
(* and a negative integer, with the clock and the timer.                   *)
(***************************************************************************)
DeadlineInputs ==
  {YamlNull, YamlString, YamlBoolean(TRUE), YamlInteger(0), YamlInteger(TickMs),
   YamlInteger(-1), YamlInteger(-TickMs), YamlInteger(-I64_MAX - 1)}
DeadlineConfigs ==
  {MkConfig(TRUE, TRUE, FALSE, FALSE, YamlNull)}
  \cup {MkConfig(TRUE, TRUE, FALSE, TRUE, t) : t \in DeadlineInputs}
DeadlineForwardResults == {o \in BareForwardResults : ~o.parallel_fn /\ o.status = 0}
InitDeadline ==
  /\ cfg \in DeadlineConfigs
  /\ modules \in UsualChains
  /\ NoRequestYet
  /\ ServerAtRest
NextDeadline ==
  \/ PipelineStep(RequestsLowercaseHost, DeadlineForwardResults, BarePostResults)
  \/ Tick
  \/ Timeout
SpecDeadline == InitDeadline /\ [][NextDeadline]_vars

TimeoutValue == ConfigGet(cfg, "timeout")

\* C40: the deadline of a request is T milliseconds for an integer T >= 0 of
\* `timeout`, 300000 ms for a value that is neither null nor an integer, and
\* T + 2^64 ms, at least half the range of u64, for a negative integer T,
\* under which the request is never abandoned.
C40_DeadlineFromTimeout ==
  pc # "idle" =>
    /\ (TimeoutValue.kind = "Integer" /\ TimeoutValue.v >= 0) =>
          deadline = [some |-> TRUE, ms |-> TimeoutValue.v]
    /\ TimeoutValue.kind \notin {"Null", "Integer"} =>
          deadline = [some |-> TRUE, ms |-> 300000]
    /\ (TimeoutValue.kind = "Integer" /\ TimeoutValue.v < 0) =>
          /\ deadline = [some |-> TRUE, ms |-> TimeoutValue.v + U64_MODULUS]
          /\ deadline.ms > I64_MAX
          /\ deadline.ms > MaxClock
          /\ pc # "timedout"
          /\ result.kind # "Err"

C40_Witness ==
  /\ TimeoutValue = YamlInteger(-1)
  /\ deadline.ms = U64_MODULUS - 1
  /\ clock = MaxClock
  /\ pc = "done"
  /\ forward_calls # <<>>
  /\ result.kind = "Ok"

====
